---- MODULE Spec2Model ----
(***************************************************************************)
(* statminer: the multi-provider chat dispatcher (useChat), the data       *)
(* source registry (searchAllSources, getAllDatasets, getDataSource), the  *)
(* result validator (validateDataResult), the search and fetch of the      *)
(* Census, FRED and World Bank adapters, the chat store (useChatStore) and *)
(* the health endpoint (/api/health).                                      *)
(*                                                                         *)
(* One action is one JavaScript task: the synchronous code of a handler    *)
(* together with every promise continuation (microtask) it makes runnable. *)
(***************************************************************************)
EXTENDS Integers, Sequences, FiniteSets, TLC

(***************************************************************************)
(* Bounds of the model.                                                    *)
(***************************************************************************)
\* longest provider list a caller passes to sendMessage
MaxProviders == 2
\* how many sendMessage dispatches of one hook may be in flight together
MaxOverlap == 2
\* most sessions the chat store holds
MaxSessions == 3
\* most messages of the store's top-level list
MaxMessages == 2
\* most rows of a data result or of a source's payload
MaxRows == 2
\* how often a caller validates the candidate it holds
MaxCalls == 2
\* resolution of the clock: ticks to the day
TicksPerDay == 2

VARIABLES
    providers,        \* the caller's provider list (activeProviders)
    apiKeys,          \* the caller's credential map, provider id -> key
    isLoading,        \* useState(false)
    error,            \* useState<string | null>(null)
    abortController,  \* useState<AbortController | null>(null)
    dispatch,         \* one record per sendMessage call in flight or returned
    fanout,           \* the searchAllSources / getAllDatasets call in progress
    lookup,           \* the last getDataSource call
    clock,            \* Date.now(), in ticks
    candidate,        \* the value a caller holds and hands to validateDataResult
    outcomes,         \* what validateDataResult returned, call by call
    call,             \* one search or fetch of a source adapter
    validation,       \* validateDataResult of the result of that fetch
    store,            \* the state of useChatStore
    storeCall,        \* the last call of a store action, as its caller made it
    health            \* process.env and the last response of /api/health

chatVars == <<providers, apiKeys, isLoading, error, abortController, dispatch>>
srcVars == <<fanout, lookup>>
dataVars == <<clock, candidate, outcomes, call, validation>>
storeVars == <<store, storeCall>>
vars == <<chatVars, srcVars, dataVars, storeVars, health>>
\* what the hook's operations leave alone, what the registry's do, what the
\* validator's and the adapters' do, what the store's and the endpoint's do
notChatVars == <<srcVars, dataVars, storeVars, health>>
notSrcVars == <<chatVars, dataVars, storeVars, health>>
notDataVars == <<chatVars, srcVars, storeVars, health>>
notStoreVars == <<chatVars, srcVars, dataVars, health>>
notHealthVars == <<chatVars, srcVars, dataVars, storeVars>>

(***************************************************************************)
(* JavaScript values.                                                      *)
(***************************************************************************)
Undefined == "undefined"
Null == "null"
\* an optional string value that was not supplied, as a message
NoError == <<>>
\* an optional number: <<>> is undefined, <<n>> is the number n
NoTokens == <<>>

\* !value for the strings of the model: undefined and '' are falsy
Truthy(v) == v # Undefined /\ v # ""

Slots == 1..MaxOverlap
\* an AbortController is named by the slot of the dispatch that created it;
\* this is the null of useState<AbortController | null>(null)
NoController == 0

(***************************************************************************)
(* Inputs.                                                                 *)
(***************************************************************************)
\* the keys of providerConfigs
KnownProviders == {"openai", "anthropic", "openrouter", "grok"}
\* the ids the callers of the model pass: two configured ones and one that
\* providerConfigs does not know
ProviderIds == {"openai", "anthropic", "mistral"}
ApiKeyValues == {Undefined, "", "sk-key"}

Range(s) == {s[i] : i \in DOMAIN s}

\* provider lists without repetition, as the provider selector keeps them
ProviderLists ==
    UNION {{s \in [1..n -> ProviderIds] : Cardinality(Range(s)) = n} : n \in 0..MaxProviders}

\* HTTP statuses of a response with response.ok = false
ErrorStatuses == {"500"}
\* JSON bodies of a successful completion: the generated text and the usage
OkBodies == {[text |-> "hello", tokens |-> <<1000>>],
             [text |-> Undefined, tokens |-> NoTokens]}
\* the prompts a caller sends, as sequences of pieces of text
Messages == {<<"hello">>, <<"compare", "these rows">>}
\* JSON bodies of an error response: with and without error.message
ErrorBodies == {[message |-> "rate limited"], [message |-> Undefined]}

(***************************************************************************)
(* callProvider's tables and calculateCost.                                *)
(***************************************************************************)
\* costPer1kTokens in millionths of a dollar per 1000 tokens; 0.01 is the
\* default of an id without an entry
CostPer1kTokens(providerId) ==
    CASE providerId = "openai" -> 10000
      [] providerId = "anthropic" -> 15000
      [] providerId = "openrouter" -> 15000
      [] providerId = "grok" -> 10000
      [] OTHER -> 10000

\* a price per token taken for the price per 1000 tokens
calculateCostPerToken(providerId, tokens) == tokens * CostPer1kTokens(providerId)

\* (tokens / 1000) * rate, in millionths of a dollar
calculateCost(providerId, tokens) == (tokens * CostPer1kTokens(providerId)) \div 1000

\* number || 0 on an optional number
OrZero(opt) == IF opt = NoTokens THEN 0 ELSE opt[1]

\* config.parseResponse(data): anthropic adds (input || 0) + (output || 0), the
\* other three pass usage.total_tokens through, undefined included
parseResponse(providerId, body) ==
    [content |-> IF Truthy(body.text) THEN body.text ELSE "",
     tokensUsed |-> IF providerId = "anthropic" THEN <<OrZero(body.tokens)>> ELSE body.tokens]

\* DEFAULT_PROVIDERS, the provider table of the chat view: id, model and
\* costPer1kTokens in millionths of a dollar
DEFAULT_PROVIDERS ==
    <<[id |-> "openai", model |-> "gpt-4-turbo-preview", costPer1kTokens |-> 10000],
      [id |-> "anthropic", model |-> "claude-3-5-sonnet-20241022", costPer1kTokens |-> 15000],
      [id |-> "openrouter", model |-> "anthropic/claude-3.5-sonnet", costPer1kTokens |-> 15000],
      [id |-> "grok", model |-> "grok-beta", costPer1kTokens |-> 10000]>>

(***************************************************************************)
(* The three BatchResponse values sendMessage builds.                      *)
(***************************************************************************)
MissingKeyResponse(providerId) ==
    [providerId |-> providerId, response |-> "", tokensUsed |-> 0, cost |-> 0,
     error |-> <<"No API key configured for", providerId>>]

ErrorResponse(providerId, errorMessage) ==
    [providerId |-> providerId, response |-> "", tokensUsed |-> 0, cost |-> 0,
     error |-> errorMessage]

\* callProvider's return value { ...parsed, cost } put into a BatchResponse
SuccessResponse(providerId, body) ==
    LET parsed == parseResponse(providerId, body)
        cost == calculateCost(providerId, OrZero(parsed.tokensUsed))
    IN [providerId |-> providerId, response |-> parsed.content,
        tokensUsed |-> OrZero(parsed.tokensUsed), cost |-> cost,
        error |-> NoError]

\* a body that opens the prompt with a line naming the provider
RequestBodyNamingProvider(providerId, msg) ==
    [model |-> providerId, content |-> <<providerId>> \o msg, max_tokens |-> 4096]

\* config.body(msg) of providerConfigs: the model of the provider and the
\* prompt as the content of the one user message
RequestBody(providerId, msg) ==
    [model |-> CASE providerId = "openai" -> "gpt-4-turbo-preview"
                 [] providerId = "anthropic" -> "claude-3-5-sonnet-20241022"
                 [] providerId = "openrouter" -> "anthropic/claude-3.5-sonnet"
                 [] providerId = "grok" -> "grok-beta",
     content |-> msg,
     max_tokens |-> 4096]

(***************************************************************************)
(* One branch of providers.map(async ...): the promise of one provider.     *)
(*   phase      "fetch": fetch() is pending; "body": response.json() is     *)
(*              pending; "fulfilled" / "rejected": the promise has settled  *)
(*   ok, status the Response fetch() resolved with                          *)
(*   value      the BatchResponse a fulfilled promise carries               *)
(* and what the environment did to the call, which the code cannot read:    *)
(*   calls      how often callProvider was invoked for it                   *)
(*   fetchCalls how often fetch() was invoked for it                        *)
(*   request    the body fetch() was invoked with                           *)
(*   cause      the event that ended the call, detail its payload           *)
(***************************************************************************)
NoValue == [providerId |-> Null, response |-> "", tokensUsed |-> 0, cost |-> 0,
            error |-> NoError]
NoBody == [text |-> Undefined, tokens |-> NoTokens]
\* no request was sent
NoRequest == [model |-> Null, content |-> <<>>, max_tokens |-> 0]

NewBranch ==
    [phase |-> "fetch", ok |-> FALSE, status |-> "", value |-> NoValue,
     calls |-> 0, fetchCalls |-> 0, cause |-> "pending", detail |-> NoBody,
     request |-> NoRequest]

Settled(b) == b.phase \in {"fulfilled", "rejected"}
Pending(b) == ~Settled(b)

\* return result / return errorResponse: the branch's promise fulfils
Fulfil(b, value) == [b EXCEPT !.phase = "fulfilled", !.value = value]

\* a catch that rethrows: the branch's promise rejects
CatchCallFailureRethrows(b, providerId, errorMessage) == [b EXCEPT !.phase = "rejected"]

\* a catch that issues the call again after its first failure
CatchCallFailureRetries(b, providerId, errorMessage) ==
    IF b.phase = "fetch" /\ b.fetchCalls = 1
    THEN [b EXCEPT !.calls = @ + 1, !.fetchCalls = @ + 1]
    ELSE Fulfil(b, ErrorResponse(providerId, errorMessage))

\* catch (err) { ... return errorResponse } around await callProvider(...)
CatchCallFailure(b, providerId, errorMessage) ==
    Fulfil(b, ErrorResponse(providerId, errorMessage))

\* the message of the Error callProvider throws for a response that is not ok:
\* errorData.error?.message || `${providerId} API error: ${status} ...`
ApiErrorMessage(providerId, status, message) ==
    IF Truthy(message) THEN <<message>> ELSE <<"API error", providerId, status>>

\* a branch that calls the provider without looking at the key
StartBranchWithoutKeyCheck(providerId, apiKey) ==
    IF providerId \notin KnownProviders
    THEN [Fulfil(NewBranch, ErrorResponse(providerId, <<"Unknown provider", providerId>>))
            EXCEPT !.calls = 1, !.cause = "unknown-provider"]
    ELSE [NewBranch EXCEPT !.calls = 1, !.fetchCalls = 1]

\* The async arrow function of providers.map up to its first suspension, and the
\* catch of an unknown provider id, which runs in the same task.
StartBranch(providerId, apiKey) ==
    IF ~Truthy(apiKey)
    THEN [Fulfil(NewBranch, MissingKeyResponse(providerId)) EXCEPT !.cause = "missing-key"]
    ELSE IF providerId \notin KnownProviders
    THEN [CatchCallFailure(NewBranch, providerId, <<"Unknown provider", providerId>>)
            EXCEPT !.calls = 1, !.cause = "unknown-provider"]
    ELSE [NewBranch EXCEPT !.calls = 1, !.fetchCalls = 1]

\* fetch(config.endpoint, { ..., body: JSON.stringify(config.body(message)) })
\* of a branch that got as far as fetch()
WithRequest(b, providerId, message) ==
    IF b.fetchCalls = 0 THEN b
    ELSE [b EXCEPT !.request = RequestBody(providerId, message)]

\* What the abort signal does to a call: a pending fetch() and a pending
\* response.json() reject with an AbortError; on a response that is not ok the
\* rejection of json() is swallowed by .catch(() => ({})).
AbortBranch(b, providerId) ==
    IF Settled(b) THEN b
    ELSE IF b.phase = "body" /\ ~b.ok
    THEN [CatchCallFailure(b, providerId, ApiErrorMessage(providerId, b.status, Undefined))
            EXCEPT !.cause = "aborted"]
    ELSE [CatchCallFailure(b, providerId, <<"The user aborted a request.">>)
            EXCEPT !.cause = "aborted"]

\* a branch that reports every outcome through onResponse
CallbackOfAlwaysResponse(b) == <<"onResponse", b.value.providerId>>

\* the callback a settled branch has made
CallbackOf(b) ==
    IF b.value.error = NoError THEN <<"onResponse", b.value.providerId>>
    ELSE <<"onError", b.value.providerId>>

(***************************************************************************)
(* The join: await Promise.allSettled(promises), the loop that keeps the    *)
(* fulfilled values, onComplete, return, finally.                           *)
(***************************************************************************)
AllSettled(branches) == \A i \in DOMAIN branches : Settled(branches[i])

IsFulfilled(b) == b.phase = "fulfilled"
ValueOf(b) == b.value

RECURSIVE MapValues(_)
MapValues(branches) ==
    IF branches = <<>> THEN <<>>
    ELSE <<ValueOf(Head(branches))>> \o MapValues(Tail(branches))

\* a loop that keeps only the outcomes without an error
CollectSuccessesOnly(branches) ==
    LET succeeded(b) == IsFulfilled(b) /\ b.value.error = NoError
    IN MapValues(SelectSeq(branches, succeeded))

\* a join that gives up every outcome when one call failed
CollectAllOrNothing(branches) ==
    IF \E i \in DOMAIN branches : branches[i].value.error # NoError
    THEN <<>>
    ELSE MapValues(SelectSeq(branches, IsFulfilled))

\* for (const result of results) if (result.status === 'fulfilled') responses.push(result.value)
Collect(branches) == MapValues(SelectSeq(branches, IsFulfilled))

IdleDispatch ==
    [pc |-> "idle", message |-> <<>>, branches |-> <<>>, signalAborted |-> FALSE,
     responses |-> <<>>, callbacks |-> <<>>, promise |-> "none", cancelSeen |-> FALSE]

\* The state of a dispatch after one task changed its branches to `branches`
\* and made the callbacks `made`: it returns as soon as every promise settled.
\* Every branch catches its own failure and allSettled never rejects, so the
\* outer catch (lines 113-120) is never entered and `error` is never set.
Resume(rec, branches, made) ==
    IF AllSettled(branches)
    THEN [rec EXCEPT !.pc = "returned", !.branches = branches,
                     !.responses = Collect(branches),
                     !.callbacks = rec.callbacks \o made \o <<(<<"onComplete", Null>>)>>,
                     !.promise = "resolved"]
    ELSE [rec EXCEPT !.branches = branches, !.callbacks = rec.callbacks \o made]

Running(d) == dispatch[d].pc = "running"
FreeSlots == {d \in Slots : ~Running(d)}

(***************************************************************************)
(* The hook's operations.                                                  *)
(***************************************************************************)
ChatInit ==
    /\ providers \in ProviderLists
    /\ apiKeys \in {k \in [ProviderIds -> ApiKeyValues] :
                        \A p \in ProviderIds \ Range(providers) : k[p] = Undefined}
    /\ isLoading = FALSE
    /\ error = Null
    /\ abortController = NoController
    /\ dispatch = [d \in Slots |-> IdleDispatch]

\* the hook state after a task in which the dispatch `rec` ran: finally { ... }
\* clears isLoading and the controller when the dispatch returned
LoadingAfter(rec, loading) == IF rec.pc = "returned" THEN FALSE ELSE loading
ControllerAfter(rec, controller) == IF rec.pc = "returned" THEN NoController ELSE controller

\* the callbacks of the branches that settle in the task that starts them:
\* onError of a missing key is called inside map(), the catch of an unknown
\* provider id runs afterwards, in map order
StartCallbacks(branches) ==
    LET missing(b) == b.cause = "missing-key"
        unknown(b) == b.cause = "unknown-provider"
        RECURSIVE cbs(_)
        cbs(bs) == IF bs = <<>> THEN <<>> ELSE <<CallbackOf(Head(bs))>> \o cbs(Tail(bs))
    IN cbs(SelectSeq(branches, missing)) \o cbs(SelectSeq(branches, unknown))

\* sendMessage(message, providers, apiKeys), up to await Promise.allSettled
SendMessage(d) ==
    /\ d \in FreeSlots
    /\ \A e \in FreeSlots : d <= e
    /\ \E message \in Messages :
          LET branches == [i \in DOMAIN providers |->
                              WithRequest(StartBranch(providers[i], apiKeys[providers[i]]),
                                          providers[i], message)]
              started == [IdleDispatch EXCEPT !.pc = "running", !.promise = "pending",
                                              !.message = message]
              rec == Resume(started, branches, StartCallbacks(branches))
          IN /\ dispatch' = [dispatch EXCEPT ![d] = rec]
             /\ isLoading' = LoadingAfter(rec, TRUE)
             /\ error' = Null
             /\ abortController' = ControllerAfter(rec, d)
    /\ UNCHANGED <<providers, apiKeys, notChatVars>>

\* one pending call of a running dispatch changes to `b`
Step(d, i, b) ==
    LET rec == dispatch[d]
        made == IF Settled(b) THEN <<CallbackOf(b)>> ELSE <<>>
        next == Resume(rec, [rec.branches EXCEPT ![i] = b], made)
    IN /\ dispatch' = [dispatch EXCEPT ![d] = next]
       /\ isLoading' = LoadingAfter(next, isLoading)
       /\ abortController' = ControllerAfter(next, abortController)
       /\ UNCHANGED <<providers, apiKeys, error, notChatVars>>

InPhase(d, i, phase) ==
    /\ Running(d)
    /\ i \in DOMAIN dispatch[d].branches
    /\ dispatch[d].branches[i].phase = phase

\* fetch() resolves with a Response: callProvider goes on to response.json()
FetchResolves(d, i) ==
    /\ InPhase(d, i, "fetch")
    /\ \E ok \in BOOLEAN : \E status \in ErrorStatuses :
          Step(d, i, [dispatch[d].branches[i] EXCEPT
                        !.phase = "body", !.ok = ok,
                        !.status = IF ok THEN "200" ELSE status])

\* fetch() rejects: a network error, caught by the branch
FetchRejects(d, i) ==
    /\ InPhase(d, i, "fetch")
    /\ Step(d, i, [CatchCallFailure(dispatch[d].branches[i], providers[i], <<"Failed to fetch">>)
                     EXCEPT !.cause = "network-error"])

\* response.json() resolves: the completion is parsed and priced, or the error
\* envelope of a response that is not ok becomes the Error callProvider throws
BodyResolves(d, i) ==
    /\ InPhase(d, i, "body")
    /\ LET b == dispatch[d].branches[i]
       IN IF b.ok
          THEN \E body \in OkBodies :
                  Step(d, i, [Fulfil(b, SuccessResponse(providers[i], body))
                                EXCEPT !.cause = "completed", !.detail = body])
          ELSE \E body \in ErrorBodies :
                  Step(d, i, [CatchCallFailure(b, providers[i],
                                   ApiErrorMessage(providers[i], b.status, body.message))
                                EXCEPT !.cause = "http-error", !.detail = body])

\* response.json() rejects: the body is not JSON
BodyRejects(d, i) ==
    /\ InPhase(d, i, "body")
    /\ LET b == dispatch[d].branches[i]
           message == IF b.ok THEN <<"Unexpected token in JSON">>
                      ELSE ApiErrorMessage(providers[i], b.status, Undefined)
       IN Step(d, i, [CatchCallFailure(b, providers[i], message)
                        EXCEPT !.cause = IF b.ok THEN "bad-json" ELSE "http-error"])

\* cancelRequest(): abort the controller the hook holds, which rejects every
\* pending call made with its signal, then clear the controller and isLoading
CancelRequest ==
    /\ LET aborted(d) ==
              LET rec == dispatch[d]
                  branches == [i \in DOMAIN rec.branches |-> AbortBranch(rec.branches[i], providers[i])]
                  hit == {i \in DOMAIN rec.branches : Pending(rec.branches[i])}
                  RECURSIVE cbs(_)
                  cbs(i) == IF i > Len(branches) THEN <<>>
                            ELSE (IF i \in hit THEN <<CallbackOf(branches[i])>> ELSE <<>>) \o cbs(i + 1)
              IN Resume([rec EXCEPT !.signalAborted = TRUE], branches, cbs(1))
           seen(rec) == [rec EXCEPT !.cancelSeen = rec.cancelSeen \/ rec.pc = "running"]
       IN dispatch' = [d \in Slots |->
                          IF abortController = d /\ Running(d)
                          THEN seen(aborted(d))
                          ELSE seen(dispatch[d])]
    /\ abortController' = NoController
    /\ isLoading' = FALSE
    /\ UNCHANGED <<providers, apiKeys, error, notChatVars>>

(***************************************************************************)
(* The data source registry.                                               *)
(***************************************************************************)
\* DATA_SOURCES, in table order, with the class getInstance constructs
DATA_SOURCES ==
    <<[id |-> "census", requiresApiKey |-> FALSE, class |-> "CensusDataSource"],
      [id |-> "fred", requiresApiKey |-> TRUE, class |-> "FredDataSource"],
      [id |-> "worldbank", requiresApiKey |-> FALSE, class |-> "WorldBankDataSource"]>>

Registry == DOMAIN DATA_SOURCES

\* config.getInstance(apiKey): the adapter object, by its id field and the key
\* its constructor stored; worldbank hands out the keyless singleton and fred
\* stores apiKey || ''
getInstance(config, apiKey) ==
    CASE config.class = "CensusDataSource" ->
            [id |-> "census", class |-> config.class, apiKey |-> apiKey]
      [] config.class = "FredDataSource" ->
            [id |-> "fred", class |-> config.class,
             apiKey |-> IF Truthy(apiKey) THEN apiKey ELSE ""]
      [] config.class = "WorldBankDataSource" ->
            [id |-> "worldbank", class |-> config.class, apiKey |-> Undefined]

\* the result of getDataSource for an id without a config
NoSource == [id |-> Null, class |-> Null, apiKey |-> Undefined]

\* DATA_SOURCES.find(s => s.id === sourceId): the first match, 0 for undefined
RECURSIVE FindFrom(_, _)
FindFrom(sourceId, i) ==
    IF i > Len(DATA_SOURCES) THEN 0
    ELSE IF DATA_SOURCES[i].id = sourceId THEN i
    ELSE FindFrom(sourceId, i + 1)

\* a lookup that falls back to the first config
getDataSourceOrFirst(sourceId, keys) ==
    LET found == FindFrom(sourceId, 1)
    IN getInstance(DATA_SOURCES[IF found = 0 THEN 1 ELSE found], keys[sourceId])

getDataSource(sourceId, keys) ==
    LET found == FindFrom(sourceId, 1)
    IN IF found = 0 THEN NoSource
       ELSE getInstance(DATA_SOURCES[found], keys[sourceId])

\* longest list one source answers with
MaxMatches == 2

\* the ids the callers of the model ask getDataSource for
SourceIds == {"census", "fred", "worldbank", "bls", "Census"}
\* the credential maps the callers of the model pass: empty, a FRED key only,
\* a key for every id asked for
SourceKeyMaps ==
    {[s \in SourceIds |-> Undefined],
     [s \in SourceIds |-> IF s = "fred" THEN "fred-key" ELSE Undefined],
     [s \in SourceIds |-> "key"]}

\* the first datasets of each source's catalogue (CENSUS_DATASETS,
\* POPULAR_SERIES, POPULAR_INDICATORS)
Catalogue(sourceId) ==
    CASE sourceId = "census" -> <<"acs/acs1", "acs/acs5", "dec/pl", "pep/population">>
      [] sourceId = "fred" -> <<"GDP", "GDPC1", "UNRATE", "CPIAUCSL">>
      [] sourceId = "worldbank" -> <<"NY.GDP.MKTP.CD", "NY.GDP.PCAP.CD", "NY.GDP.MKTP.KD.ZG", "SP.POP.TOTL">>

DatasetInfo(sourceId, datasetId) == [id |-> datasetId, source |-> sourceId]

\* the lists source.search(query) and source.getDatasets() can answer with
Answers(sourceId) ==
    {[k \in 1..n |-> DatasetInfo(sourceId, Catalogue(sourceId)[k])] :
        n \in 0..MaxMatches}

NoFanout ==
    [op |-> "none", sources |-> <<>>, calls |-> <<>>, order |-> <<>>,
     promise |-> "none", result |-> <<>>]
NoLookup == [sourceId |-> Null, returned |-> NoSource]

SourcesInit ==
    /\ fanout = NoFanout
    /\ lookup = NoLookup

\* results in the order in which the promises settled
allSettledInCompletionOrder(calls, order) == [k \in DOMAIN order |-> calls[order[k]]]

\* Promise.allSettled(promises): one result per promise, in the order of the
\* promises, whatever the order in which they settled
allSettled(calls, order) == calls

RECURSIVE Flatten(_)
Flatten(lists) == IF lists = <<>> THEN <<>> ELSE Head(lists) \o Flatten(Tail(lists))

\* results.filter(r => r.status === 'fulfilled').flatMap(r => r.value)
IsFulfilledResult(r) == r.status = "fulfilled"
RECURSIVE Values(_)
Values(results) ==
    IF results = <<>> THEN <<>> ELSE <<Head(results).value>> \o Values(Tail(results))
\* a merge that fails as a whole when one source failed
MergeAllOrNothing(results) ==
    IF \E k \in DOMAIN results : results[k].status = "rejected" THEN <<>>
    ELSE Flatten(Values(results))

MergeFulfilled(results) == Flatten(Values(SelectSeq(results, IsFulfilledResult)))

\* searchAllSources(query, apiKeys) and getAllDatasets(apiKeys) up to the await:
\* one instance per config and one call per instance
StartFanout(op, keys) ==
    /\ fanout.promise # "pending"
    /\ fanout' = [op |-> op,
                  sources |-> [i \in Registry |-> getInstance(DATA_SOURCES[i], keys[DATA_SOURCES[i].id])],
                  calls |-> [i \in Registry |-> [status |-> "pending", value |-> <<>>]],
                  order |-> <<>>,
                  promise |-> "pending",
                  result |-> <<>>]
    /\ UNCHANGED <<lookup, notSrcVars>>

SearchAllSources == \E keys \in SourceKeyMaps : StartFanout("searchAllSources", keys)
GetAllDatasets == \E keys \in SourceKeyMaps : StartFanout("getAllDatasets", keys)

\* the promise of source i settles; with the last one the await returns and the
\* function returns the merged list
Settle(i, settled) ==
    /\ fanout.promise = "pending"
    /\ fanout.calls[i].status = "pending"
    /\ LET calls == [fanout.calls EXCEPT ![i] = settled]
           order == Append(fanout.order, i)
           done == \A k \in Registry : calls[k].status # "pending"
       IN fanout' = [fanout EXCEPT
                        !.calls = calls,
                        !.order = order,
                        !.promise = IF done THEN "resolved" ELSE "pending",
                        !.result = IF done THEN MergeFulfilled(allSettled(calls, order)) ELSE <<>>]
    /\ UNCHANGED <<lookup, notSrcVars>>

\* source.search(query) / source.getDatasets() fulfils with a list
SourceFulfils(i) ==
    \E answer \in Answers(DATA_SOURCES[i].id) :
        Settle(i, [status |-> "fulfilled", value |-> answer])

\* source.search(query) / source.getDatasets() rejects
SourceRejects(i) == Settle(i, [status |-> "rejected", value |-> <<>>])

\* a call of getDataSource(sourceId, apiKeys)
GetDataSource ==
    /\ \E sourceId \in SourceIds : \E keys \in SourceKeyMaps :
          lookup' = [sourceId |-> sourceId, returned |-> getDataSource(sourceId, keys)]
    /\ UNCHANGED <<fanout, notSrcVars>>

(***************************************************************************)
(* JavaScript values of the data layer, tagged by their type: the tag is   *)
(* the first element, so values of different types compare unequal.        *)
(* A DataResult and its metadata are records with a member for every key   *)
(* the code reads (an absent member is undefined); any other object is the *)
(* sequence of its <<key, value>> pairs.                                   *)
(***************************************************************************)
JsUndefined == <<"undefined">>
JsNull == <<"null">>
JsNaN == <<"NaN">>
InvalidDate == <<"invalid date">>
Str(s) == <<"string", s>>
\* a string the model spells out character by character
Text(chars) == <<"text", chars>>
Num(n) == <<"number", n>>
DateAt(t) == <<"date", t>>
Arr(elems) == <<"array", elems>>
Obj(members) == <<"object", members>>
TypeOf(v) == v[1]

\* The clock counts ticks; a day (1000 * 60 * 60 * 24 ms) is TicksPerDay ticks.
MaxAgeDays == 30

(***************************************************************************)
(* DataResultSchema and validateDataResult (types.ts).                     *)
(***************************************************************************)
Freshness == {"realtime", "daily", "weekly", "monthly", "annual"}

\* one zod issue, after the map of lines 111-114: the path and the message
Issue(path, expected, v) ==
    <<path, IF v = JsUndefined THEN <<"Required">>
            ELSE <<"Expected", expected, "received", TypeOf(v)>>>>

\* z.string(), z.number(), z.date(), z.record(z.unknown()) on one value
CheckType(path, expected, v) ==
    IF TypeOf(v) = expected THEN <<>> ELSE <<Issue(path, expected, v)>>

\* the same, for an optional member
CheckOptional(path, expected, v) ==
    IF v = JsUndefined THEN <<>> ELSE CheckType(path, expected, v)

\* z.enum([...]).optional()
CheckFreshness(path, v) ==
    IF v = JsUndefined \/ (TypeOf(v) = "string" /\ v[2] \in Freshness)
    THEN <<>> ELSE <<Issue(path, "enum", v)>>

RECURSIVE CheckElements(_, _, _, _)
\* the issues of the elements i.. of an array, each under path.i
CheckElements(path, expected, elems, i) ==
    IF i > Len(elems) THEN <<>>
    ELSE CheckType(Append(path, i - 1), expected, elems[i])
         \o CheckElements(path, expected, elems, i + 1)

\* z.array(element)
CheckArray(path, expected, v) ==
    IF TypeOf(v) # "array" THEN <<Issue(path, "array", v)>>
    ELSE CheckElements(path, expected, v[2], 1)

\* the metadata object of the schema, lines 86-92
CheckMetadata(v) ==
    IF TypeOf(v) # "object" THEN <<Issue(<<"metadata">>, "object", v)>>
    ELSE LET m == v[2] IN
         CheckType(<<"metadata", "fetchedAt">>, "date", m.fetchedAt)
         \o CheckType(<<"metadata", "rowCount">>, "number", m.rowCount)
         \o CheckArray(<<"metadata", "columns">>, "string", m.columns)
         \o CheckFreshness(<<"metadata", "freshness">>, m.freshness)
         \o CheckOptional(<<"metadata", "sourceUrl">>, "string", m.sourceUrl)

\* every issue of a candidate against DataResultSchema, in schema order
SchemaIssues(data) ==
    IF TypeOf(data) # "object" THEN <<Issue(<<>>, "object", data)>>
    ELSE LET o == data[2] IN
         CheckType(<<"source">>, "string", o.source)
         \o CheckType(<<"dataset">>, "string", o.dataset)
         \o CheckArray(<<"data">>, "object", o.data)
         \o CheckMetadata(o.metadata)

\* what a successful parse returns: a fresh object holding the members the
\* schema declares, the others stripped
Stripped(data) == Obj([data[2] EXCEPT !.extra = JsUndefined])

\* safeParse that writes the parsed object over its argument
safeParseInPlace(data) ==
    LET issues == SchemaIssues(data) IN
    IF issues = <<>>
    THEN [success |-> TRUE, data |-> Stripped(data), errors |-> <<>>,
          input |-> Stripped(data)]
    ELSE [success |-> FALSE, data |-> JsUndefined, errors |-> issues,
          input |-> data]

\* DataResultSchema.safeParse(data); `input` is the argument after the call
safeParse(data) ==
    LET issues == SchemaIssues(data) IN
    IF issues = <<>>
    THEN [success |-> TRUE, data |-> Stripped(data), errors |-> <<>>,
          input |-> data]
    ELSE [success |-> FALSE, data |-> JsUndefined, errors |-> issues,
          input |-> data]

FreshnessWarning(days) == <<"Data is", days, "days old">>
EmptyWarning == <<"Query returned no results">>

\* the freshness test with the boundary day counted as stale
IsStaleAtBoundary(age) == age >= MaxAgeDays * TicksPerDay

\* ageInDays > 30, the age given in ticks
IsStale(age) == age > MaxAgeDays * TicksPerDay

\* lines 119-131: the warnings of a parsed result at the clock reading `now`
Warnings(parsed, now) ==
    LET fetchedAt == parsed[2].metadata[2].fetchedAt[2]
        age == now - fetchedAt
    IN  (IF IsStale(age) THEN <<FreshnessWarning(age \div TicksPerDay)>> ELSE <<>>)
        \o (IF Len(parsed[2].data[2]) = 0 THEN <<EmptyWarning>> ELSE <<>>)

\* the warnings a validator without the early return would still compute
WarningsOfRejected(data, now) ==
    LET o == data[2]
        dated == /\ TypeOf(data) = "object" /\ TypeOf(o.metadata) = "object"
                 /\ TypeOf(o.metadata[2].fetchedAt) = "date"
        listed == TypeOf(data) = "object" /\ TypeOf(o.data) = "array"
    IN  (IF dated /\ IsStale(now - o.metadata[2].fetchedAt[2])
         THEN <<FreshnessWarning((now - o.metadata[2].fetchedAt[2]) \div TicksPerDay)>>
         ELSE <<>>)
        \o (IF listed /\ Len(o.data[2]) = 0 THEN <<EmptyWarning>> ELSE <<>>)

\* validateDataResult without the short circuit on a structural failure
validateDataResultNoShortCircuit(data, now) ==
    LET result == safeParse(data) IN
    IF ~result.success
    THEN [valid |-> FALSE, errors |-> result.errors,
          warnings |-> WarningsOfRejected(data, now), data |-> JsUndefined]
    ELSE [valid |-> TRUE, errors |-> <<>>,
          warnings |-> Warnings(result.data, now), data |-> result.data]

\* validateDataResult that rejects a stale result instead of warning
validateDataResultRejectsStale(data, now) ==
    LET result == safeParse(data) IN
    IF ~result.success
    THEN [valid |-> FALSE, errors |-> result.errors, warnings |-> <<>>,
          data |-> JsUndefined]
    ELSE IF result.data[2].metadata[2].fetchedAt[2] + MaxAgeDays * TicksPerDay < now
    THEN [valid |-> FALSE,
          errors |-> <<Issue(<<"metadata", "fetchedAt">>, "recent date",
                             result.data[2].metadata[2].fetchedAt)>>,
          warnings |-> <<>>, data |-> JsUndefined]
    ELSE [valid |-> TRUE, errors |-> <<>>,
          warnings |-> Warnings(result.data, now), data |-> result.data]

\* validateDataResult(data), with Date.now() = now
validateDataResult(data, now) ==
    LET result == safeParse(data) IN
    IF ~result.success
    THEN [valid |-> FALSE, errors |-> result.errors, warnings |-> <<>>,
          data |-> JsUndefined]
    ELSE [valid |-> TRUE, errors |-> <<>>,
          warnings |-> Warnings(result.data, now), data |-> result.data]

(***************************************************************************)
(* The candidates handed to the validator.                                 *)
(***************************************************************************)
Columns == <<"NAME", "value">>
RowFull == Obj(<<(<<"NAME", Str("Alabama")>>), (<<"value", Num(5)>>)>>)
RowNull == Obj(<<(<<"NAME", Str("Alabama")>>), (<<"value", JsNull>>)>>)

RowLists == UNION {[1..n -> {RowFull, RowNull}] : n \in 0..MaxRows}

Metadata(fetchedAt, rows) ==
    [fetchedAt |-> fetchedAt, rowCount |-> Num(Len(rows)),
     columns |-> Arr(<<Str(Columns[1]), Str(Columns[2])>>),
     freshness |-> Str("annual"), sourceUrl |-> JsUndefined]

\* a well-formed DataResult fetched at tick 0, with or without a member the
\* schema does not declare
WellFormed(rows, extra) ==
    [source |-> Str("census"), dataset |-> Str("acs/acs1"), data |-> Arr(rows),
     metadata |-> Obj(Metadata(DateAt(0), rows)), extra |-> extra]

ValidCandidates ==
    {Obj(WellFormed(rows, extra)) : rows \in RowLists, extra \in {JsUndefined, Str("x")}}

\* candidates that fail the structural pass; each has zero rows where it has
\* rows at all, and is as old as the clock says
Base == WellFormed(<<>>, JsUndefined)
MetaBase == Metadata(DateAt(0), <<>>)
InvalidCandidates ==
    { JsNull,
      Obj([Base EXCEPT !.source = JsUndefined]),
      Obj([Base EXCEPT !.source = Num(7)]),
      Obj([Base EXCEPT !.data = JsNull]),
      Obj([Base EXCEPT !.data = Arr(<<Num(1)>>)]),
      Obj([Base EXCEPT !.metadata = JsUndefined]),
      Obj([Base EXCEPT !.metadata = Obj([MetaBase EXCEPT !.fetchedAt = Str("2024-01-01T00:00:00.000Z")])]),
      Obj([Base EXCEPT !.metadata = Obj([MetaBase EXCEPT !.fetchedAt = InvalidDate])]),
      Obj([Base EXCEPT !.metadata = Obj([MetaBase EXCEPT !.rowCount = JsNaN])]),
      Obj([Base EXCEPT !.metadata = Obj([MetaBase EXCEPT !.columns = JsUndefined])]),
      Obj([Base EXCEPT !.metadata = Obj([MetaBase EXCEPT !.columns = Arr(<<Num(1)>>)])]),
      Obj([Base EXCEPT !.metadata = Obj([MetaBase EXCEPT !.freshness = Str("unknown")])]),
      Obj([Base EXCEPT !.source = JsUndefined,
                       !.metadata = Obj([MetaBase EXCEPT !.fetchedAt = JsUndefined])]) }

Candidates == ValidCandidates \cup InvalidCandidates

\* the clock readings of the model: the tick of the fetch, and 29 days, 30
\* days, 30 days and a tick, and 31 days after it
ClockReadings ==
    {0, (MaxAgeDays - 1) * TicksPerDay, MaxAgeDays * TicksPerDay,
     MaxAgeDays * TicksPerDay + 1, (MaxAgeDays + 1) * TicksPerDay}

NoCandidate == JsUndefined

ValidatorIdle ==
    /\ candidate = NoCandidate
    /\ outcomes = <<>>

ValidatorInit ==
    /\ candidate \in Candidates
    /\ outcomes = <<>>

\* time passes
Tick ==
    /\ \E later \in ClockReadings : later > clock /\ clock' = later
    /\ UNCHANGED <<candidate, outcomes, call, validation, notDataVars>>

\* a caller validates the candidate it holds
Validate ==
    /\ Len(outcomes) < MaxCalls
    /\ outcomes' = Append(outcomes, [at |-> clock,
                                     outcome |-> validateDataResult(candidate, clock)])
    /\ candidate' = safeParse(candidate).input
    /\ UNCHANGED <<clock, call, validation, notDataVars>>

(***************************************************************************)
(* Text the adapters match against: a string is the sequence of its        *)
(* characters.                                                             *)
(***************************************************************************)
UpperCase == <<"A", "B", "C", "D", "E", "F", "G", "H", "I", "J", "K", "L", "M", "N", "O", "P", "Q", "R", "S", "T", "U", "V", "W", "X", "Y", "Z">>
LowerCase == <<"a", "b", "c", "d", "e", "f", "g", "h", "i", "j", "k", "l", "m", "n", "o", "p", "q", "r", "s", "t", "u", "v", "w", "x", "y", "z">>

\* c.toLowerCase() for one character
LowerChar(c) ==
    IF \E k \in DOMAIN UpperCase : UpperCase[k] = c
    THEN LowerCase[CHOOSE k \in DOMAIN UpperCase : UpperCase[k] = c]
    ELSE c

\* text.toLowerCase()
toLowerCase(text) == [k \in DOMAIN text |-> LowerChar(text[k])]

\* text.includes(part)
includes(text, part) ==
    \E k \in 0..(Len(text) - Len(part)) : SubSeq(text, k + 1, k + Len(part)) = part

\* the first entries of POPULAR_SERIES (part_002), in key order
POPULAR_SERIES ==
    <<[id |-> <<"G", "D", "P">>,
       name |-> <<"G", "r", "o", "s", "s", " ", "D", "o", "m", "e", "s", "t", "i", "c", " ", "P", "r", "o", "d", "u", "c", "t">>,
       description |-> <<"U", "S", " ", "G", "D", "P", " ", "i", "n", " ", "b", "i", "l", "l", "i", "o", "n", "s", " ", "o", "f", " ", "d", "o", "l", "l", "a", "r", "s">>],
      [id |-> <<"G", "D", "P", "C", "1">>,
       name |-> <<"R", "e", "a", "l", " ", "G", "D", "P">>,
       description |-> <<"R", "e", "a", "l", " ", "G", "r", "o", "s", "s", " ", "D", "o", "m", "e", "s", "t", "i", "c", " ", "P", "r", "o", "d", "u", "c", "t", ",", " ", "s", "e", "a", "s", "o", "n", "a", "l", "l", "y", " ", "a", "d", "j", "u", "s", "t", "e", "d">>],
      [id |-> <<"U", "N", "R", "A", "T", "E">>,
       name |-> <<"U", "n", "e", "m", "p", "l", "o", "y", "m", "e", "n", "t", " ", "R", "a", "t", "e">>,
       description |-> <<"C", "i", "v", "i", "l", "i", "a", "n", " ", "u", "n", "e", "m", "p", "l", "o", "y", "m", "e", "n", "t", " ", "r", "a", "t", "e">>]>>

\* the first entries of POPULAR_INDICATORS (part_001), in key order
POPULAR_INDICATORS ==
    <<[id |-> <<"N", "Y", ".", "G", "D", "P", ".", "M", "K", "T", "P", ".", "C", "D">>,
       name |-> <<"G", "D", "P", " ", "(", "c", "u", "r", "r", "e", "n", "t", " ", "U", "S", "$", ")">>,
       description |-> <<"G", "r", "o", "s", "s", " ", "D", "o", "m", "e", "s", "t", "i", "c", " ", "P", "r", "o", "d", "u", "c", "t", " ", "a", "t", " ", "m", "a", "r", "k", "e", "t", " ", "p", "r", "i", "c", "e", "s">>],
      [id |-> <<"N", "Y", ".", "G", "D", "P", ".", "P", "C", "A", "P", ".", "C", "D">>,
       name |-> <<"G", "D", "P", " ", "p", "e", "r", " ", "c", "a", "p", "i", "t", "a", " ", "(", "c", "u", "r", "r", "e", "n", "t", " ", "U", "S", "$", ")">>,
       description |-> <<"G", "D", "P", " ", "d", "i", "v", "i", "d", "e", "d", " ", "b", "y", " ", "m", "i", "d", "y", "e", "a", "r", " ", "p", "o", "p", "u", "l", "a", "t", "i", "o", "n">>],
      [id |-> <<"N", "Y", ".", "G", "D", "P", ".", "M", "K", "T", "P", ".", "K", "D", ".", "Z", "G">>,
       name |-> <<"G", "D", "P", " ", "g", "r", "o", "w", "t", "h", " ", "(", "a", "n", "n", "u", "a", "l", " ", "%", ")">>,
       description |-> <<"A", "n", "n", "u", "a", "l", " ", "G", "D", "P", " ", "g", "r", "o", "w", "t", "h", " ", "r", "a", "t", "e">>],
      [id |-> <<"S", "P", ".", "P", "O", "P", ".", "T", "O", "T", "L">>,
       name |-> <<"P", "o", "p", "u", "l", "a", "t", "i", "o", "n", ",", " ", "t", "o", "t", "a", "l">>,
       description |-> <<"T", "o", "t", "a", "l", " ", "p", "o", "p", "u", "l", "a", "t", "i", "o", "n", " ", "c", "o", "u", "n", "t">>]>>

\* the queries the callers of the model search for
Queries == {<<"g", "d", "p">>, <<"G", "D", "P">>, <<"R", "a", "t", "e">>, <<"t", "o", "t", "a", "l">>, <<>>, <<"x", "y", "z">>}

\* a series and an indicator only the remote search knows
RemoteSeriesId == <<"M", "2", "S", "L">>
RemoteSeriesTitle == <<"M", "2", " ", "M", "o", "n", "e", "y", " ", "S", "t", "o", "c", "k">>

(***************************************************************************)
(* Reading JavaScript values.                                              *)
(***************************************************************************)
\* the TypeError a read of a member of null or undefined, or a call of a
\* method a value does not have, throws
TypeError == <<"throw", "TypeError">>
Throws(v) == v[1] = "throw"

Nullish(v) == TypeOf(v) \in {"undefined", "null"}

\* !v
Falsy(v) ==
    \/ TypeOf(v) \in {"undefined", "null", "NaN"}
    \/ (TypeOf(v) = "number" /\ v[2] = 0)
    \/ (TypeOf(v) = "string" /\ v[2] = "")
    \/ (TypeOf(v) = "text" /\ v[2] = <<>>)

HasKey(v, key) == TypeOf(v) = "object" /\ \E k \in DOMAIN v[2] : v[2][k][1] = key

\* v.key, for an object given by its <<key, value>> pairs
Get(v, key) ==
    IF Nullish(v) THEN TypeError
    ELSE IF HasKey(v, key)
    THEN v[2][CHOOSE k \in DOMAIN v[2] : v[2][k][1] = key][2]
    ELSE JsUndefined

\* array[i], counting from 0: undefined past the end
At(elems, i) == IF i + 1 \in DOMAIN elems THEN elems[i + 1] ELSE JsUndefined

\* new Date(v) for the values of the model
NewDate(v) == IF TypeOf(v) \in {"string", "text"} THEN DateAt(0) ELSE InvalidDate

\* a promise the adapter's caller holds
NoResult == <<>>
NoReason == <<>>
Fulfilled(v) == [state |-> "fulfilled", value |-> v, reason |-> NoReason]
Rejected(reason) == [state |-> "rejected", value |-> NoResult, reason |-> reason]

(***************************************************************************)
(* search of the adapters with a live search endpoint.                     *)
(***************************************************************************)
\* the entries of a local table whose id, name or description includes the
\* query, compared in lower case, as DatasetInfo
LocalMatches(table, query, sourceId, category) ==
    LET lowerQuery == toLowerCase(query)
        Matches(entry) ==
            \/ includes(toLowerCase(entry.id), lowerQuery)
            \/ includes(toLowerCase(entry.name), lowerQuery)
            \/ includes(toLowerCase(entry.description), lowerQuery)
        found == SelectSeq(table, Matches)
    IN  [k \in DOMAIN found |->
            [id |-> Text(found[k].id), name |-> Text(found[k].name),
             description |-> Text(found[k].description), source |-> sourceId,
             category |-> category, lastUpdated |-> JsUndefined]]

\* a FRED catch block that passes the failure on
FredSearchFailedRethrows(query) == Rejected(<<"FRED API error">>)

\* FredDataSource.search, lines 89-105: the catch block
FredSearchFailed(query) ==
    Fulfilled(LocalMatches(POPULAR_SERIES, query, "fred", "financial"))

\* lines 81-88: one series of the reply as DatasetInfo
SeriesInfo(series) ==
    [id |-> Get(series, "id"), name |-> Get(series, "title"),
     description |-> IF Falsy(Get(series, "notes")) THEN Text(<<>>)
                     ELSE Get(series, "notes"),
     source |-> "fred", category |-> "financial",
     lastUpdated |-> NewDate(Get(series, "last_updated"))]

\* lines 79-88 on the parsed reply; a throw inside lands in the catch block
FredSearchParsed(data, query) ==
    LET seriess == Get(data, "seriess")
        list == IF Falsy(seriess) THEN Arr(<<>>) ELSE seriess
    IN  IF Throws(seriess) \/ TypeOf(list) # "array"
           \/ \E k \in DOMAIN list[2] : Nullish(list[2][k])
        THEN FredSearchFailed(query)
        ELSE Fulfilled([k \in DOMAIN list[2] |-> SeriesInfo(list[2][k])])

\* WorldBankDataSource.search, lines 191-209: the catch block and what
\* follows the try
WorldBankSearchFailed(query) ==
    Fulfilled(LocalMatches(POPULAR_INDICATORS, query, "worldbank", "international"))

\* lines 182-188: one indicator of the reply as DatasetInfo
IndicatorInfo(ind) ==
    [id |-> Get(ind, "id"), name |-> Get(ind, "name"),
     description |-> IF Falsy(Get(ind, "sourceNote")) THEN Text(<<>>)
                     ELSE Get(ind, "sourceNote"),
     source |-> "worldbank", category |-> "international",
     lastUpdated |-> JsUndefined]

\* lines 179-190 on the parsed reply: const [, data] = ... needs an iterable
WorldBankSearchParsed(body, query) ==
    LET data == At(body[2], 1) IN
    IF TypeOf(body) # "array" THEN WorldBankSearchFailed(query)
    ELSE IF Falsy(data) \/ TypeOf(data) # "array" THEN WorldBankSearchFailed(query)
    ELSE IF \E k \in DOMAIN data[2] : Nullish(data[2][k])
    THEN WorldBankSearchFailed(query)
    ELSE Fulfilled([k \in DOMAIN data[2] |-> IndicatorInfo(data[2][k])])

\* one entry of a remote reply
RemoteSeries ==
    Obj(<<(<<"id", Text(RemoteSeriesId)>>), (<<"title", Text(RemoteSeriesTitle)>>),
          (<<"last_updated", Text(<<"2", "0", "2", "4">>)>>)>>)
RemoteIndicator ==
    Obj(<<(<<"id", Text(RemoteSeriesId)>>), (<<"name", Text(RemoteSeriesTitle)>>)>>)
PageInfo == Obj(<<(<<"page", Num(1)>>)>>)

\* the bodies response.json() parses a search reply to
FredSearchBodies ==
    { JsNull,
      Obj(<<>>),
      Obj(<<(<<"seriess", Num(7)>>)>>),
      Obj(<<(<<"seriess", Arr(<<JsNull>>)>>)>>),
      Obj(<<(<<"seriess", Arr(<<>>)>>)>>),
      Obj(<<(<<"seriess", Arr(<<RemoteSeries>>)>>)>>) }
WorldBankSearchBodies ==
    { JsNull,
      Obj(<<>>),
      Arr(<<PageInfo>>),
      Arr(<<PageInfo, JsNull>>),
      Arr(<<PageInfo, Arr(<<JsNull>>)>>),
      Arr(<<PageInfo, Arr(<<>>)>>),
      Arr(<<PageInfo, Arr(<<RemoteIndicator>>)>>) }

(***************************************************************************)
(* fetch of the three adapters.                                            *)
(***************************************************************************)
\* A URL is the sequence of the pieces the code puts it together from; an
\* occurrence of a pattern is a piece equal to it.
\* url.replace(pattern, replacement) with a string pattern: the first
\* occurrence only, and the empty pattern occurs at the very start
RECURSIVE ReplaceFrom(_, _, _, _)
ReplaceFrom(url, pattern, replacement, i) ==
    IF i > Len(url) THEN url
    ELSE IF url[i] = pattern THEN [url EXCEPT ![i] = replacement]
    ELSE ReplaceFrom(url, pattern, replacement, i + 1)

replace(url, pattern, replacement) ==
    IF pattern = "" THEN <<replacement>> \o url
    ELSE ReplaceFrom(url, pattern, replacement, 1)

\* value || fallback for the strings of the model
OrElse(value, fallback) == IF Truthy(value) THEN value ELSE fallback

\* census.ts lines 108-126: the request URL
CensusUrl(datasetId, year, apiKey) ==
    <<"https://api.census.gov/data", "/", OrElse(year, "2022"), "/", datasetId,
      "?get=", "B01001_001E%2CNAME", "&for=", "state%3A*">>
    \o (IF Truthy(apiKey) THEN <<"&key=", apiKey>> ELSE <<>>)

\* part_002 lines 109-126
FredUrl(seriesId, year, apiKey) ==
    <<"https://api.stlouisfed.org/fred", "/series/observations", "?api_key=", apiKey,
      "&series_id=", seriesId, "&file_type=json">>
    \o (IF Truthy(year)
        THEN <<"&observation_start=", year, "-01-01", "&observation_end=", year, "-12-31">>
        ELSE <<>>)

\* part_001 lines 214-218
WorldBankUrl(indicatorId, year) ==
    <<"https://api.worldbank.org/v2", "/country/", "all", "/indicator/", indicatorId,
      "?format=json&per_page=", "1000", "&date=", OrElse(year, "2010:2023")>>

\* census.ts line 161
CensusSourceUrl(url, apiKey) == replace(url, OrElse(apiKey, ""), "[API_KEY]")

\* Number(s) for the strings of the payloads of the model
StringToNumber(s) ==
    CASE s = "" -> Num(0)
      [] s = "01" -> Num(1)
      [] s = "15" -> Num(15)
      [] s = "4903185" -> Num(4903185)
      [] OTHER -> JsNaN

\* Number(v)
ToNumber(v) ==
    CASE TypeOf(v) = "null" -> Num(0)
      [] TypeOf(v) = "number" -> v
      [] TypeOf(v) = "string" -> StringToNumber(v[2])
      [] OTHER -> JsNaN

\* parseInt(v) for the dates of the payloads of the model
parseInt(v) ==
    IF TypeOf(v) = "string" /\ v[2] = "2020" THEN Num(2020) ELSE JsNaN

\* census.ts line 147: isNaN(Number(value)) ? value : Number(value)
Coerce(value) == IF ToNumber(value) = JsNaN THEN value ELSE ToNumber(value)

\* a DataResult as an adapter returns it
DataResult(sourceId, datasetId, rows, fetchedAt, columns, freshness, sourceUrl) ==
    Obj([source |-> Str(sourceId), dataset |-> Str(datasetId), data |-> Arr(rows),
         metadata |-> Obj([fetchedAt |-> DateAt(fetchedAt),
                           rowCount |-> Num(Len(rows)),
                           columns |-> columns,
                           freshness |-> Str(freshness),
                           sourceUrl |-> Str(sourceUrl)]),
         extra |-> JsUndefined])

Strings(names) == Arr([k \in DOMAIN names |-> Str(names[k])])

\* census.ts lines 142-150: one row of the payload as an object keyed by
\* the headers
CensusRow(headers, row) ==
    Obj([k \in DOMAIN headers[2] |->
            <<headers[2][k][2],
              Coerce(IF TypeOf(row) = "array" THEN At(row[2], k - 1) ELSE JsUndefined)>>])

\* census.ts lines 136-163 on the parsed reply; a throw lands in the catch
CensusParsed(rawData, datasetId, url, apiKey, now) ==
    LET headers == At(rawData[2], 0)
        rows == IF rawData[2] = <<>> THEN <<>> ELSE Tail(rawData[2])
    IN  IF TypeOf(rawData) # "array" THEN TypeError
        ELSE IF rows # <<>> /\ (TypeOf(headers) # "array"
                                \/ \E k \in DOMAIN rows : Nullish(rows[k]))
        THEN TypeError
        ELSE DataResult("census", datasetId,
                        [k \in DOMAIN rows |-> CensusRow(headers, rows[k])],
                        now, headers, "annual", CensusSourceUrl(url, apiKey))

\* part_002 lines 169-178
determineFreshness(frequencyCode) ==
    CASE frequencyCode = Str("D") -> "daily"
      [] frequencyCode = Str("W") -> "weekly"
      [] frequencyCode = Str("A") -> "annual"
      [] OTHER -> "monthly"

\* part_002 lines 139-143: one observation as a row
Observation(obs, seriesId) ==
    Obj(<<(<<"date", Get(obs, "date")>>),
          (<<"value", IF Get(obs, "value") = Str(".") THEN JsNull
                      ELSE ToNumber(Get(obs, "value"))>>),
          (<<"seriesId", Str(seriesId)>>)>>)

\* part_002 lines 136-156 on the parsed reply
FredParsed(rawData, seriesId, now) ==
    LET observations == Get(rawData, "observations")
        list == IF Falsy(observations) THEN Arr(<<>>) ELSE observations
    IN  IF Throws(observations) \/ TypeOf(list) # "array"
           \/ \E k \in DOMAIN list[2] : Nullish(list[2][k])
        THEN TypeError
        ELSE DataResult("fred", seriesId,
                        [k \in DOMAIN list[2] |-> Observation(list[2][k], seriesId)],
                        now, Strings(<<"date", "value", "seriesId">>),
                        determineFreshness(Get(rawData, "frequency_short")),
                        <<"https://fred.stlouisfed.org/series/", seriesId>>)

\* part_001 lines 247-254: one item of the reply as a row
IndicatorRow(item) ==
    Obj(<<(<<"country", Get(Get(item, "country"), "value")>>),
          (<<"countryCode", IF Falsy(Get(item, "countryiso3code"))
                            THEN Get(Get(item, "country"), "id")
                            ELSE Get(item, "countryiso3code")>>),
          (<<"year", parseInt(Get(item, "date"))>>),
          (<<"value", Get(item, "value")>>),
          (<<"indicator", Get(Get(item, "indicator"), "id")>>),
          (<<"indicatorName", Get(Get(item, "indicator"), "value")>>)>>)

\* item.value !== null
HasValue(item) == Get(item, "value") # JsNull

\* part_001 lines 227-267 on the parsed reply
WorldBankParsed(body, indicatorId, url, now) ==
    LET rawData == At(body[2], 1)
        kept == SelectSeq(rawData[2], HasValue)
    IN  IF TypeOf(body) # "array" THEN TypeError
        ELSE IF Falsy(rawData) \/ (TypeOf(rawData) = "array" /\ rawData[2] = <<>>)
        THEN DataResult("worldbank", indicatorId, <<>>, now,
                        Strings(<<"country", "countryCode", "year", "value", "indicator">>),
                        "annual", url)
        ELSE IF TypeOf(rawData) # "array"
                \/ (\E k \in DOMAIN rawData[2] : Nullish(rawData[2][k]))
                \/ (\E j \in DOMAIN kept :
                       Nullish(Get(kept[j], "country")) \/ Nullish(Get(kept[j], "indicator")))
        THEN TypeError
        ELSE DataResult("worldbank", indicatorId,
                        [k \in DOMAIN kept |-> IndicatorRow(kept[k])], now,
                        Strings(<<"country", "countryCode", "year", "value",
                                  "indicator", "indicatorName">>),
                        "annual",
                        <<"https://data.worldbank.org/indicator/", indicatorId>>)

(***************************************************************************)
(* The payloads the sources answer a fetch with.                           *)
(***************************************************************************)
NonEmptyLists(S) == UNION {[1..n -> S] : n \in 1..MaxRows}

CensusHeader == Arr(<<Str("NAME"), Str("B01001_001E")>>)
CensusPayloadRows ==
    {Arr(<<Str("Alabama"), v>>) : v \in {Str("4903185"), Str("01"), Str(""), Str("N/A"), JsNull}}
    \cup {Arr(<<Str("Alabama")>>)}
CensusBodies ==
    { JsNull, Obj(<<>>), Arr(<<>>), Arr(<<CensusHeader>>), Arr(<<CensusHeader, JsNull>>) }
    \cup {Arr(<<CensusHeader>> \o rows) : rows \in NonEmptyLists(CensusPayloadRows)}

FredObservations ==
    { Obj(<<(<<"date", Str("2020-01-01")>>), (<<"value", Str("15")>>)>>),
      Obj(<<(<<"date", Str("2020-01-01")>>), (<<"value", Str(".")>>)>>),
      Obj(<<>>) }
FredBodies ==
    { JsNull, Obj(<<>>), Obj(<<(<<"error_message", Str("Bad Request")>>)>>),
      Obj(<<(<<"observations", Num(7)>>)>>),
      Obj(<<(<<"observations", Arr(<<JsNull>>)>>)>>),
      Obj(<<(<<"observations", Arr(<<>>)>>), (<<"frequency_short", Str("A")>>)>>) }
    \cup {Obj(<<(<<"observations", Arr(list)>>)>>) : list \in NonEmptyLists(FredObservations)}

IndicatorItem(value) ==
    Obj(<<(<<"indicator", Obj(<<(<<"id", Str("SP.POP.TOTL")>>),
                                (<<"value", Str("Population, total")>>)>>)>>),
          (<<"country", Obj(<<(<<"id", Str("US")>>), (<<"value", Str("United States")>>)>>)>>),
          (<<"countryiso3code", Str("USA")>>),
          (<<"date", Str("2020")>>),
          (<<"value", value>>)>>)
WorldBankItems == {IndicatorItem(Num(5)), IndicatorItem(JsNull), Obj(<<>>)}
WorldBankMessage == Obj(<<(<<"message", Arr(<<Obj(<<(<<"id", Str("120")>>)>>)>>)>>)>>)
WorldBankBodies ==
    { JsNull, Obj(<<>>), Arr(<<WorldBankMessage>>), Arr(<<PageInfo, JsNull>>),
      Arr(<<PageInfo, Arr(<<>>)>>), Arr(<<PageInfo, Str("x")>>),
      Arr(<<PageInfo, Arr(<<JsNull>>)>>) }
    \cup {Arr(<<PageInfo, Arr(list)>>) : list \in NonEmptyLists(WorldBankItems)}

\* the replies of one source to one kind of request
Replies(sourceId, op) ==
    CASE op = "search" /\ sourceId = "fred" -> FredSearchBodies
      [] op = "search" /\ sourceId = "worldbank" -> WorldBankSearchBodies
      [] op = "fetch" /\ sourceId = "census" -> CensusBodies
      [] op = "fetch" /\ sourceId = "fred" -> FredBodies
      [] op = "fetch" /\ sourceId = "worldbank" -> WorldBankBodies
      [] OTHER -> {}

\* the body response.json() could not parse
Unparsed == <<"unparseable">>

Statuses == {"200", "404", "500"}
\* response.ok
Ok(status) == status = "200"

(***************************************************************************)
(* One call of an adapter's search or fetch.                               *)
(***************************************************************************)
\* the adapters getDataSource hands out
Adapters ==
    {getDataSource(id, keys) : id \in {DATA_SOURCES[i].id : i \in Registry}, keys \in SourceKeyMaps}

\* the dataset and the year the callers of the model fetch
FetchedDataset(sourceId) ==
    CASE sourceId = "census" -> "acs/acs1"
      [] sourceId = "fred" -> "GDP"
      [] sourceId = "worldbank" -> "SP.POP.TOTL"
Years == {Undefined, "2020"}

NoPromise == [state |-> "none", value |-> NoResult, reason |-> NoReason]
NoValidation == [valid |-> FALSE, errors |-> <<>>, warnings |-> <<>>, data |-> JsNull]

NoCall ==
    [adapter |-> NoSource, op |-> "none", pc |-> "idle", query |-> <<>>,
     datasetId |-> Null, url |-> <<>>, requests |-> 0, network |-> "none",
     status |-> "", body |-> JsUndefined, promise |-> NoPromise, validated |-> FALSE]

AdaptersIdle ==
    /\ call = NoCall
    /\ validation = NoValidation

AdaptersInit ==
    /\ call \in {[NoCall EXCEPT !.adapter = a] : a \in Adapters}
    /\ validation = NoValidation

\* the search fallback of the adapter in use
SearchFailed(sourceId, query) ==
    IF sourceId = "fred" THEN FredSearchFailed(query) ELSE WorldBankSearchFailed(query)

\* the rethrow of an adapter's fetch, lines 164-166, 157-159, 268-270
FetchFailed(sourceId, message) ==
    Rejected(<<CASE sourceId = "census" -> "Failed to fetch Census data"
                 [] sourceId = "fred" -> "Failed to fetch FRED data"
                 [] sourceId = "worldbank" -> "Failed to fetch World Bank data">>
             \o message)

\* the request URL of a search
SearchUrl(sourceId, query, apiKey) ==
    IF sourceId = "fred"
    THEN <<"https://api.stlouisfed.org/fred", "/series/search", "?api_key=", apiKey,
           "&search_text=", query, "&file_type=json", "&limit=20">>
    ELSE <<"https://api.worldbank.org/v2", "/indicator?format=json&per_page=20&search=", query>>

\* source.search(query) up to its first await
StartSearch(query) ==
    /\ call.pc = "idle"
    /\ call.adapter.id \in {"fred", "worldbank"}
    /\ call' = [call EXCEPT !.op = "search", !.pc = "fetch", !.query = query,
                            !.url = SearchUrl(call.adapter.id, query, call.adapter.apiKey),
                            !.requests = 1, !.network = "pending",
                            !.promise = [NoPromise EXCEPT !.state = "pending"]]
    /\ UNCHANGED <<clock, candidate, outcomes, validation, notDataVars>>

\* source.fetch(datasetId, {year}) up to its first await
StartFetch(year) ==
    /\ call.pc = "idle"
    /\ LET id == call.adapter.id
           datasetId == FetchedDataset(id)
       IN call' = [call EXCEPT
                !.op = "fetch", !.pc = "fetch", !.datasetId = datasetId,
                !.url = CASE id = "census" -> CensusUrl(datasetId, year, call.adapter.apiKey)
                          [] id = "fred" -> FredUrl(datasetId, year, call.adapter.apiKey)
                          [] id = "worldbank" -> WorldBankUrl(datasetId, year),
                !.requests = 1, !.network = "pending",
                !.promise = [NoPromise EXCEPT !.state = "pending"]]
    /\ UNCHANGED <<clock, candidate, outcomes, validation, notDataVars>>

\* the request fails before a response arrives
AdapterFetchRejects ==
    /\ call.pc = "fetch"
    /\ call' = [call EXCEPT
            !.pc = "settled", !.network = "failed",
            !.promise = IF call.op = "search"
                        THEN SearchFailed(call.adapter.id, call.query)
                        ELSE FetchFailed(call.adapter.id, <<"fetch failed">>)]
    /\ UNCHANGED <<clock, candidate, outcomes, validation, notDataVars>>

\* a response arrives: the code reads response.ok and goes on to the body
AdapterFetchResolves(status) ==
    /\ call.pc = "fetch"
    /\ LET id == call.adapter.id
           answered == [call EXCEPT !.network = "answered", !.status = status]
       IN call' =
            IF Ok(status) THEN [answered EXCEPT !.pc = "json"]
            ELSE IF call.op = "search"
            THEN [answered EXCEPT !.pc = "settled", !.promise = SearchFailed(id, call.query)]
            ELSE IF id = "census" THEN [answered EXCEPT !.pc = "text"]
            ELSE IF id = "fred" THEN [answered EXCEPT !.pc = "errorJson"]
            ELSE [answered EXCEPT !.pc = "settled",
                                  !.promise = FetchFailed(id, <<"World Bank API error", status>>)]
    /\ UNCHANGED <<clock, candidate, outcomes, validation, notDataVars>>

\* the body of a non-success response was read, or could not be
AdapterErrorBodySettles(readable) ==
    /\ call.pc \in {"text", "errorJson"}
    /\ LET id == call.adapter.id IN
       call' = [call EXCEPT
            !.pc = "settled",
            !.promise =
                IF id = "census"
                THEN FetchFailed(id, IF readable
                                     THEN <<"Census API error", call.status, "errorText">>
                                     ELSE <<"body stream failed">>)
                ELSE FetchFailed(id, <<"FRED API error", call.status,
                                       IF readable THEN "Bad Request" ELSE "Unknown error">>)]
    /\ UNCHANGED <<clock, candidate, outcomes, validation, notDataVars>>

\* what the code after `await response.json()` makes of the parsed reply
Parsed(c, body, now) ==
    LET id == c.adapter.id IN
    IF c.op = "search"
    THEN IF id = "fred" THEN FredSearchParsed(body, c.query)
         ELSE WorldBankSearchParsed(body, c.query)
    ELSE LET result ==
                CASE id = "census" ->
                        CensusParsed(body, c.datasetId, c.url, c.adapter.apiKey, now)
                  [] id = "fred" -> FredParsed(body, c.datasetId, now)
                  [] id = "worldbank" -> WorldBankParsed(body, c.datasetId, c.url, now)
         IN IF Throws(result) THEN FetchFailed(id, <<"TypeError">>)
            ELSE Fulfilled(result)

\* response.json() resolves with the parsed body
AdapterJsonResolves ==
    /\ call.pc = "json"
    /\ \E body \in Replies(call.adapter.id, call.op) :
            call' = [call EXCEPT !.pc = "settled", !.body = body,
                                 !.promise = Parsed(call, body, clock)]
    /\ UNCHANGED <<clock, candidate, outcomes, validation, notDataVars>>

\* response.json() rejects: the body is not JSON
AdapterJsonRejects ==
    /\ call.pc = "json"
    /\ call' = [call EXCEPT
            !.pc = "settled", !.body = Unparsed,
            !.promise = IF call.op = "search"
                        THEN SearchFailed(call.adapter.id, call.query)
                        ELSE FetchFailed(call.adapter.id, <<"SyntaxError">>)]
    /\ UNCHANGED <<clock, candidate, outcomes, validation, notDataVars>>

\* the caller hands the result of a fetch to validateDataResult
ValidateFetched ==
    /\ call.pc = "settled"
    /\ call.op = "fetch"
    /\ call.promise.state = "fulfilled"
    /\ ~call.validated
    /\ validation' = validateDataResult(call.promise.value, clock)
    /\ call' = [call EXCEPT !.validated = TRUE]
    /\ UNCHANGED <<clock, candidate, outcomes, notDataVars>>

(***************************************************************************)
(* The chat store (useChatStore): the zustand state and its actions, each  *)
(* a function from the state to the next state.                            *)
(***************************************************************************)
\* the title argument left out, as in createSession()
NoTitle == <<>>
\* the titles the callers of the model pass: none, so every session gets the
\* default title
Titles == {NoTitle}

\* `session-${Date.now()}`
SessionId(now) == <<"session", now>>

\* the messages the chat view adds, and the updates it applies by id
ChatMessages == {[id |-> "m1", content |-> "hello"], [id |-> "m2", content |-> "compare"]}
MessageIds == {"m1", "m3"}
Updates == {[content |-> "edited"]}

\* the initial state of create(): no message, no session, no current session
InitialStore ==
    [messages |-> <<>>, sessions |-> <<>>, currentSessionId |-> JsNull,
     isStreaming |-> FALSE]

\* an addMessage that also files the message under the current session
addMessageToSession(state, message) ==
    [state EXCEPT !.messages = Append(@, message),
                  !.sessions = [k \in DOMAIN @ |->
                                   IF @[k].id = state.currentSessionId
                                   THEN [@[k] EXCEPT !.messages = Append(@, message)]
                                   ELSE @[k]]]

\* set((state) => ({ messages: [...state.messages, message] }))
addMessage(state, message) == [state EXCEPT !.messages = Append(@, message)]

\* messages.map(m => m.id === messageId ? { ...m, ...updates } : m)
updateMessage(state, messageId, updates) ==
    [state EXCEPT !.messages =
        [k \in DOMAIN @ |-> IF @[k].id = messageId
                            THEN [@[k] EXCEPT !.content = updates.content]
                            ELSE @[k]]]

\* set({ messages: [] })
clearMessages(state) == [state EXCEPT !.messages = <<>>]

\* a createSession that numbers the sessions: session-1, session-2, ...
createSessionNumbered(state, title, now) ==
    LET sessionId == SessionId(Len(state.sessions) + 1)
    IN [state EXCEPT !.sessions = Append(@, [id |-> sessionId, title |-> title,
                                             messages |-> <<>>, createdAt |-> now]),
                     !.currentSessionId = sessionId,
                     !.messages = <<>>]

\* createSession(title): the new session is appended and becomes the current
\* one; the function returns its id
createSession(state, title, now) ==
    LET sessionId == SessionId(now)
        newSession == [id |-> sessionId,
                       title |-> IF title # NoTitle THEN title
                                 ELSE <<"Chat", Len(state.sessions) + 1>>,
                       messages |-> <<>>,
                       createdAt |-> now]
    IN [state EXCEPT !.sessions = Append(@, newSession),
                     !.currentSessionId = sessionId,
                     !.messages = <<>>]

\* sessions.find(s => s.id === sessionId)?.messages || []
StoredMessages(sessions, sessionId) ==
    IF \E k \in DOMAIN sessions : sessions[k].id = sessionId
    THEN LET first == CHOOSE k \in DOMAIN sessions :
                         /\ sessions[k].id = sessionId
                         /\ \A j \in DOMAIN sessions : sessions[j].id = sessionId => k <= j
         IN sessions[first].messages
    ELSE <<>>

\* a deleteSession that leaves currentSessionId as it was
deleteSessionKeepsCurrent(state, sessionId) ==
    LET kept(s) == s.id # sessionId
    IN [state EXCEPT !.sessions = SelectSeq(@, kept)]

\* deleteSession(sessionId): the current session moves to the first one left
\* when the current one is deleted, and messages follow the current session
deleteSession(state, sessionId) ==
    LET kept(s) == s.id # sessionId
        updatedSessions == SelectSeq(state.sessions, kept)
        newCurrentSession ==
            IF state.currentSessionId = sessionId
            THEN (IF updatedSessions # <<>> THEN updatedSessions[1].id ELSE JsNull)
            ELSE state.currentSessionId
    IN [state EXCEPT !.sessions = updatedSessions,
                     !.currentSessionId = newCurrentSession,
                     !.messages = IF newCurrentSession # JsNull
                                  THEN StoredMessages(updatedSessions, newCurrentSession)
                                  ELSE <<>>]

\* switchSession(sessionId): nothing happens for an id that no session has
switchSession(state, sessionId) ==
    IF \E k \in DOMAIN state.sessions : state.sessions[k].id = sessionId
    THEN [state EXCEPT !.currentSessionId = sessionId,
                       !.messages = StoredMessages(state.sessions, sessionId)]
    ELSE state

\* the ids a caller passes to deleteSession and switchSession: those a session
\* can have, whether or not one has it now
SessionIds == {SessionId(t) : t \in ClockReadings}

\* no store action was called yet
NoStoreCall == [op |-> "none", wasCurrent |-> FALSE]

StoreIdle ==
    /\ store = InitialStore
    /\ storeCall = NoStoreCall

\* One call of a store action: the state becomes `next`. The caller's view is
\* kept beside it: the action, and whether the session id passed to it or
\* returned by it was that of the current session when it was called.
StoreCall(op, sessionId, next) ==
    /\ store' = next
    /\ storeCall' = [op |-> op,
                     wasCurrent |-> sessionId # JsNull /\ store.currentSessionId = sessionId]
    /\ UNCHANGED notStoreVars

AddMessage ==
    /\ Len(store.messages) < MaxMessages
    /\ \E message \in ChatMessages :
          StoreCall("addMessage", JsNull, addMessage(store, message))

UpdateMessage ==
    /\ store.messages # <<>>
    /\ \E messageId \in MessageIds : \E updates \in Updates :
          StoreCall("updateMessage", JsNull, updateMessage(store, messageId, updates))

ClearMessages ==
    /\ store.messages # <<>>
    /\ StoreCall("clearMessages", JsNull, clearMessages(store))

CreateSession ==
    /\ Len(store.sessions) < MaxSessions
    /\ \E title \in Titles :
          StoreCall("createSession", SessionId(clock), createSession(store, title, clock))

DeleteSession(sessionId) ==
    /\ sessionId \in SessionIds
    /\ StoreCall("deleteSession", sessionId, deleteSession(store, sessionId))

SwitchSession(sessionId) ==
    /\ sessionId \in SessionIds
    /\ StoreCall("switchSession", sessionId, switchSession(store, sessionId))

\* partialize and the merge of persist: what a reload of the page brings back
\* is the initial state with the sessions that were stored
rehydrate(state) == [InitialStore EXCEPT !.sessions = state.sessions]

Rehydrate ==
    /\ store.sessions # <<>>
    /\ StoreCall("rehydrate", JsNull, rehydrate(store))

(***************************************************************************)
(* The health endpoint (GET and HEAD of /api/health).                      *)
(***************************************************************************)
\* the variables of process.env the checks read, and what they can hold
Neo4jEnv == {"NEO4J_URI", "NEO4J_USER", "NEO4J_PASSWORD"}
LLMEnv == [openai |-> "OPENAI_API_KEY", anthropic |-> "ANTHROPIC_API_KEY",
           openrouter |-> "OPENROUTER_API_KEY", grok |-> "GROK_API_KEY"]
EnvNames == Neo4jEnv \cup {LLMEnv[p] : p \in DOMAIN LLMEnv}
EnvValues == {Undefined, "", "bolt-or-key"}

\* checkNeo4jConnection(): down unless the three variables are set
checkNeo4jConnection(env) ==
    IF \E name \in Neo4jEnv : ~Truthy(env[name])
    THEN [status |-> "down", message |-> "Neo4j credentials not configured"]
    ELSE [status |-> "up", message |-> Undefined]

\* checkLLMProviders(): up with a key, unknown without
checkLLMProviders(env) ==
    [p \in DOMAIN LLMEnv |->
        IF Truthy(env[LLMEnv[p]])
        THEN [status |-> "up", message |-> Undefined]
        ELSE [status |-> "unknown", message |-> "API key not configured"]]

\* { neo4j: neo4jStatus, ...llm_<key> of every provider check }
Services(neo4jStatus, llmProviders) ==
    [name \in {<<"neo4j">>} \cup {<<"llm", p>> : p \in DOMAIN llmProviders} |->
        IF name = <<"neo4j">> THEN neo4jStatus ELSE llmProviders[name[2]]]

\* an aggregation that takes a service of unknown state for a healthy one
OverallStatusUnknownIsUp(services) ==
    IF \E name \in DOMAIN services : services[name].status = "down"
    THEN "unhealthy" ELSE "healthy"

\* hasDown, hasUnknown, allUp and the overall status decided from them
OverallStatus(services) ==
    LET hasDown == \E name \in DOMAIN services : services[name].status = "down"
        hasUnknown == \E name \in DOMAIN services : services[name].status = "unknown"
        allUp == \A name \in DOMAIN services : services[name].status = "up"
    IN IF hasDown THEN "unhealthy"
       ELSE IF hasUnknown \/ ~allUp THEN "degraded"
       ELSE "healthy"

\* GET(): the response for the environment the process runs in
GET(env) ==
    LET services == Services(checkNeo4jConnection(env), checkLLMProviders(env))
        overallStatus == OverallStatus(services)
    IN [status |-> IF overallStatus = "unhealthy" THEN 503 ELSE 200,
        body |-> [status |-> overallStatus, services |-> services]]

\* HEAD(): 200 without a body
HEAD == [status |-> 200, body |-> [status |-> Null, services |-> <<>>]]

NoResponse == [status |-> 0, body |-> [status |-> Null, services |-> <<>>]]

HealthIdle ==
    health = [env |-> [name \in EnvNames |-> Undefined], method |-> Null,
              response |-> NoResponse]

HealthInit ==
    /\ health \in [env : [EnvNames -> EnvValues], method : {Null}, response : {NoResponse}]

\* a GET request is answered
HealthGet ==
    /\ health' = [health EXCEPT !.method = "GET", !.response = GET(health.env)]
    /\ UNCHANGED notHealthVars

\* a HEAD request is answered
HealthHead ==
    /\ health' = [health EXCEPT !.method = "HEAD", !.response = HEAD]
    /\ UNCHANGED notHealthVars

(***************************************************************************)
(* Specifications.                                                         *)
(***************************************************************************)
\* sendMessage by a caller that awaits the dispatch in flight, as the chat
\* input does, which is disabled while isLoading
AwaitedSendMessage(d) ==
    /\ \A e \in Slots : ~Running(e)
    /\ SendMessage(d)

\* the hook, one dispatch at a time
ChatNext ==
    \/ \E d \in Slots : AwaitedSendMessage(d)
    \/ \E d \in Slots : \E i \in 1..MaxProviders : FetchResolves(d, i)
    \/ \E d \in Slots : \E i \in 1..MaxProviders : FetchRejects(d, i)
    \/ \E d \in Slots : \E i \in 1..MaxProviders : BodyResolves(d, i)
    \/ \E d \in Slots : \E i \in 1..MaxProviders : BodyRejects(d, i)
    \/ CancelRequest

\* the hook, with sendMessage called again while a dispatch is in flight
OverlapNext ==
    \/ \E d \in Slots : SendMessage(d)
    \/ \E d \in Slots : \E i \in 1..MaxProviders : FetchResolves(d, i)
    \/ \E d \in Slots : \E i \in 1..MaxProviders : FetchRejects(d, i)
    \/ \E d \in Slots : \E i \in 1..MaxProviders : BodyResolves(d, i)
    \/ \E d \in Slots : \E i \in 1..MaxProviders : BodyRejects(d, i)
    \/ CancelRequest

SourcesNext ==
    \/ SearchAllSources
    \/ GetAllDatasets
    \/ \E i \in Registry : SourceFulfils(i)
    \/ \E i \in Registry : SourceRejects(i)
    \/ GetDataSource

\* the caller of the chat specifications: one provider list, one credential
\* map; the registry specification runs with the hook idle
DataIdle ==
    /\ clock = 0
    /\ ValidatorIdle
    /\ AdaptersIdle

\* the store and the health endpoint before their first use
RestIdle == StoreIdle /\ HealthIdle

Init == ChatInit /\ SourcesInit /\ DataIdle /\ RestIdle
IdleChat ==
    /\ providers = <<>>
    /\ apiKeys = [p \in ProviderIds |-> Undefined]
    /\ isLoading = FALSE
    /\ error = Null
    /\ abortController = NoController
    /\ dispatch = [d \in Slots |-> IdleDispatch]

Spec == Init /\ [][ChatNext]_vars
SpecOverlap == Init /\ [][OverlapNext]_vars
InitSources == IdleChat /\ SourcesInit /\ DataIdle /\ RestIdle
SpecSources == InitSources /\ [][SourcesNext]_vars

\* the validator: a caller holds one candidate and validates it as time passes
ValidatorNext ==
    \/ Tick
    \/ Validate

InitValidator ==
    /\ IdleChat /\ SourcesInit /\ AdaptersIdle /\ RestIdle
    /\ clock \in ClockReadings
    /\ ValidatorInit
SpecValidator == InitValidator /\ [][ValidatorNext]_vars

\* the adapters: one search or fetch of one adapter, and the validation of
\* what the fetch returned
AdaptersNext ==
    \/ \E query \in Queries : StartSearch(query)
    \/ \E year \in Years : StartFetch(year)
    \/ AdapterFetchRejects
    \/ \E status \in Statuses : AdapterFetchResolves(status)
    \/ \E readable \in BOOLEAN : AdapterErrorBodySettles(readable)
    \/ AdapterJsonResolves
    \/ AdapterJsonRejects
    \/ ValidateFetched
    \/ Tick

InitAdapters ==
    /\ IdleChat /\ SourcesInit /\ ValidatorIdle /\ RestIdle
    /\ clock \in ClockReadings
    /\ AdaptersInit
SpecAdapters == InitAdapters /\ [][AdaptersNext]_vars

\* the provider whose endpoint accepts a request and never answers it
SilentEndpoint == "openai"

\* the endpoint of provider p answers a call that waits for it: fetch() or
\* response.json() of that call settles
EndpointAnswers(p) ==
    \E d \in Slots : \E i \in DOMAIN providers :
        /\ providers[i] = p
        /\ \/ FetchResolves(d, i)
           \/ FetchRejects(d, i)
           \/ BodyResolves(d, i)
           \/ BodyRejects(d, i)

\* the hook with every endpoint but the silent one answering in the end; the
\* code arms no timer, so nothing else is bound to happen to a pending call
SpecSilentEndpoint ==
    /\ Init
    /\ [][ChatNext]_vars
    /\ \A p \in ProviderIds \ {SilentEndpoint} : WF_vars(EndpointAnswers(p))

\* the chat store: sessions are created, switched to and deleted and
\* messages added, edited and cleared while the clock advances
StoreNext ==
    \/ AddMessage
    \/ UpdateMessage
    \/ ClearMessages
    \/ CreateSession
    \/ \E sessionId \in SessionIds : DeleteSession(sessionId)
    \/ \E sessionId \in SessionIds : SwitchSession(sessionId)
    \/ Rehydrate
    \/ Tick

InitStore ==
    /\ IdleChat /\ SourcesInit /\ ValidatorIdle /\ AdaptersIdle /\ HealthIdle
    /\ clock \in ClockReadings
    /\ StoreIdle
SpecStore == InitStore /\ [][StoreNext]_vars

\* the health endpoint of a process started in some environment
HealthNext ==
    \/ HealthGet
    \/ HealthHead

InitHealth ==
    /\ IdleChat /\ SourcesInit /\ DataIdle /\ StoreIdle
    /\ HealthInit
SpecHealth == InitHealth /\ [][HealthNext]_vars

(***************************************************************************)
(* Properties of the dispatcher.                                           *)
(***************************************************************************)
Returned(d) == dispatch[d].pc = "returned"

Succeeded(outcome) == outcome.error = NoError
Failed(outcome) == outcome.error # NoError

\* the events that end a call in failure without a cancellation
CallFailures == {"unknown-provider", "network-error", "http-error", "bad-json"}

Count(seq, Test(_)) == Len(SelectSeq(seq, Test))

\* C1: the array sendMessage returns holds one outcome per requested provider, in
\* the order of the provider list: its length is |P|, the i-th outcome carries
\* providerId = P[i], and successes plus failures add up to |P|.
OneOutcomePerProvider ==
    \A d \in Slots : Returned(d) =>
        LET responses == dispatch[d].responses
        IN /\ Len(responses) = Len(providers)
           /\ \A i \in DOMAIN providers :
                 i \in DOMAIN responses /\ responses[i].providerId = providers[i]
           /\ Count(responses, Succeeded) + Count(responses, Failed) = Len(providers)

\* a dispatch over two providers has returned one success and one failed call
MixedOutcomesReturned ==
    \E d \in Slots :
        /\ Returned(d)
        /\ Len(providers) = 2
        /\ Count(dispatch[d].responses, Succeeded) = 1
        /\ \E i \in DOMAIN dispatch[d].branches :
              dispatch[d].branches[i].cause \in CallFailures

\* C2: a provider without an entry in the credential map gets the failure
\* outcome that names the missing key, with an empty response, and neither
\* callProvider nor fetch is invoked for it; a configured provider that has a
\* key is still called.
MissingKeyNeverCalled ==
    \A d \in Slots : \A i \in DOMAIN dispatch[d].branches :
        LET b == dispatch[d].branches[i]
            providerId == providers[i]
        IN /\ apiKeys[providerId] = Undefined =>
                /\ b.calls = 0 /\ b.fetchCalls = 0
                /\ b.phase = "fulfilled"
                /\ b.value.response = ""
                /\ b.value.error = <<"No API key configured for", providerId>>
                /\ b.value.providerId = providerId
                /\ Returned(d) => /\ i \in DOMAIN dispatch[d].responses
                                  /\ dispatch[d].responses[i] = b.value
           /\ Truthy(apiKeys[providerId]) =>
                /\ b.calls = 1
                /\ providerId \in KnownProviders => b.fetchCalls = 1

\* a dispatch has returned in which one provider had no key and was not called
\* and the other was called and answered
MissingKeyBesideSuccess ==
    \E d \in Slots : \E i, j \in DOMAIN dispatch[d].branches :
        /\ Returned(d)
        /\ apiKeys[providers[i]] = Undefined
        /\ dispatch[d].branches[i].fetchCalls = 0
        /\ Failed(dispatch[d].responses[i])
        /\ dispatch[d].branches[j].fetchCalls = 1
        /\ Succeeded(dispatch[d].responses[j])

\* the text parseResponse extracts from the body a call completed with
TextOf(body) == IF Truthy(body.text) THEN body.text ELSE ""

\* C3: the outcome of a provider is decided by its own call alone. A call that
\* completed is a success outcome with its own text as soon as it completes,
\* whatever the other calls do, and a returned dispatch lists every provider:
\* the success of each completed call and an error for each call that did not.
OutcomesIndependent ==
    \A d \in Slots : \A i \in DOMAIN dispatch[d].branches :
        LET b == dispatch[d].branches[i]
            made == Range(dispatch[d].callbacks)
        IN /\ b.cause = "completed" =>
                /\ b.phase = "fulfilled"
                /\ Succeeded(b.value)
                /\ b.value.response = TextOf(b.detail)
                /\ <<"onResponse", providers[i]>> \in made
           /\ Returned(d) =>
                /\ i \in DOMAIN dispatch[d].responses
                /\ dispatch[d].responses[i].providerId = providers[i]
                /\ Succeeded(dispatch[d].responses[i]) <=> b.cause = "completed"
                /\ b.cause = "completed" =>
                       dispatch[d].responses[i].response = TextOf(b.detail)
                /\ b.cause # "completed" => dispatch[d].responses[i].response = ""

\* a dispatch has returned a success together with a failure that happened
\* before the successful call completed
SuccessAfterFailureReturned ==
    \E d \in Slots :
        /\ Returned(d)
        /\ Len(dispatch[d].callbacks) = 3
        /\ dispatch[d].callbacks[1][1] = "onError"
        /\ dispatch[d].callbacks[2][1] = "onResponse"
        /\ \E i \in DOMAIN dispatch[d].branches :
              dispatch[d].branches[i].cause \in {"network-error", "http-error"}
        /\ Count(dispatch[d].responses, Succeeded) = 1

\* C4: a failing provider call is never thrown out of sendMessage: its promise
\* never rejects, and in the returned array the call that failed (unknown id,
\* network error, status that is not ok, body that is no JSON) is an outcome
\* with an error description.
FailuresNeverThrown ==
    \A d \in Slots :
        /\ dispatch[d].promise # "rejected"
        /\ Returned(d) =>
              /\ dispatch[d].promise = "resolved"
              /\ \A i \in DOMAIN dispatch[d].branches :
                    dispatch[d].branches[i].cause \in CallFailures =>
                       \E k \in DOMAIN dispatch[d].responses :
                          /\ dispatch[d].responses[k].providerId = providers[i]
                          /\ Failed(dispatch[d].responses[k])

\* a dispatch has resolved although a call ended with a status that is not ok
\* and another one with a network error or an unknown provider id
FailedCallsResolved ==
    \E d \in Slots : \E i, j \in DOMAIN dispatch[d].branches :
        /\ Returned(d)
        /\ dispatch[d].promise = "resolved"
        /\ dispatch[d].branches[i].cause = "http-error"
        /\ dispatch[d].branches[j].cause \in {"network-error", "unknown-provider"}

\* C7: no retry. fetch is invoked at most once for a requested provider, and not
\* at all when the key is missing or the id unknown; a failed call leaves one
\* onError callback and, once the dispatch returned, one outcome for its provider.
NoRetry ==
    \A d \in Slots : \A i \in DOMAIN dispatch[d].branches :
        LET b == dispatch[d].branches[i]
            isMine(outcome) == outcome.providerId = providers[i]
            myError(callback) == callback = <<"onError", providers[i]>>
        IN /\ b.fetchCalls <= 1
           /\ b.calls <= 1
           /\ b.cause \in {"missing-key", "unknown-provider"} => b.fetchCalls = 0
           /\ (Settled(b) /\ b.cause # "completed") =>
                 Count(dispatch[d].callbacks, myError) = 1
           /\ Returned(d) => Count(dispatch[d].responses, isMine) = 1

\* a dispatch has returned after a call that failed on the network, made once
FailedCallMadeOnce ==
    \E d \in Slots : \E i \in DOMAIN dispatch[d].branches :
        /\ Returned(d)
        /\ dispatch[d].branches[i].cause = "network-error"
        /\ dispatch[d].branches[i].fetchCalls = 1
        /\ Failed(dispatch[d].responses[i])

\* C5: when cancelRequest is invoked while a dispatch is in flight, the abort
\* signal reaches every call of that dispatch that has not completed, and the
\* outcomes of the calls that had completed stay as they were and are returned.
CancelReachesEveryPendingCall ==
    [][\A d \in Slots :
          (Running(d) /\ ~dispatch[d].cancelSeen /\ dispatch'[d].cancelSeen) =>
             \A i \in DOMAIN dispatch[d].branches :
                LET b == dispatch[d].branches[i]
                    after == dispatch'[d].branches[i]
                IN /\ Pending(b) => (dispatch'[d].signalAborted /\ after.cause = "aborted")
                   /\ Settled(b) =>
                         /\ after = b
                         /\ dispatch'[d].pc = "returned" =>
                               dispatch'[d].responses[i] = b.value]_vars

\* the outcomes a call of the provider can end with when the backend or the
\* network fails it: the error descriptions of a ProviderError
ProviderErrorMessages(providerId) ==
    {<<"Failed to fetch">>, <<"Unexpected token in JSON">>}
    \cup {ApiErrorMessage(providerId, status, body.message) :
             status \in ErrorStatuses, body \in ErrorBodies}

\* C6: a call aborted through the cancellation signal surfaces as cancelled, apart
\* from a provider failure: the hook's error state says 'Request cancelled', or
\* the outcome of the aborted call is none that a failed call produces.
CancelledIsDistinguishable ==
    \A d \in Slots : \A i \in DOMAIN dispatch[d].branches :
        LET b == dispatch[d].branches[i]
        IN b.cause = "aborted" =>
              \/ error = "Request cancelled"
              \/ b.value.error \notin ProviderErrorMessages(providers[i])

(***************************************************************************)
(* Properties of the registry.                                             *)
(***************************************************************************)
FanoutReturned == fanout.promise = "resolved"

RegisteredIds == {DATA_SOURCES[i].id : i \in Registry}
RegistryIndex(sourceId) == CHOOSE i \in Registry : DATA_SOURCES[i].id = sourceId

\* C8: searchAllSources with a source whose search fails still resolves, and
\* returns the matches of the other sources unchanged and nothing for the
\* failing one; no error reaches the caller.
FaultIsolation ==
    /\ fanout.promise # "rejected"
    /\ (FanoutReturned /\ fanout.op = "searchAllSources") =>
          /\ \A i \in Registry :
                LET ofSource(info) == info.source = DATA_SOURCES[i].id
                IN SelectSeq(fanout.result, ofSource) =
                      IF fanout.calls[i].status = "fulfilled"
                      THEN fanout.calls[i].value ELSE <<>>
          /\ \A k \in DOMAIN fanout.result : fanout.result[k].source \in RegisteredIds

\* searchAllSources has returned after one source failed and the two others
\* answered with matches
OneSourceFailed ==
    /\ FanoutReturned
    /\ fanout.op = "searchAllSources"
    /\ \E i \in Registry :
          /\ fanout.calls[i].status = "rejected"
          /\ \A k \in Registry \ {i} :
                fanout.calls[k].status = "fulfilled" /\ fanout.calls[k].value # <<>>
    /\ fanout.result # <<>>

\* C9: the merged list of searchAllSources and of getAllDatasets is in registry
\* order (census, fred, worldbank), each source's entries in the order the
\* source gave them, whatever the order in which the calls completed.
RegistryOrder ==
    FanoutReturned =>
        /\ \A p, q \in DOMAIN fanout.result :
              p < q => RegistryIndex(fanout.result[p].source)
                          <= RegistryIndex(fanout.result[q].source)
        /\ fanout.result =
              Flatten([i \in Registry |->
                         IF fanout.calls[i].status = "fulfilled"
                         THEN fanout.calls[i].value ELSE <<>>])

\* a fan-out has returned whose calls completed in the reverse of the registry
\* order, each with entries
CompletedOutOfOrder ==
    /\ FanoutReturned
    /\ fanout.order = <<3, 2, 1>>
    /\ \A i \in Registry : fanout.calls[i].value # <<>>
    /\ fanout.result[1].source = "census"

\* C10: getDataSource returns null for an id that is not in the table, and for
\* a registered id an adapter whose id is that id.
UnknownSourceIsNull ==
    lookup.sourceId # Null =>
        /\ lookup.sourceId \notin RegisteredIds => lookup.returned = NoSource
        /\ lookup.sourceId \in RegisteredIds =>
              /\ lookup.returned # NoSource
              /\ lookup.returned.id = lookup.sourceId

\* getDataSource was asked for an id that is in the table only in another case
UnknownSourceAsked ==
    /\ lookup.sourceId = "Census"
    /\ lookup.returned = NoSource

(***************************************************************************)
(* Properties of the adapters' search.                                     *)
(***************************************************************************)
SearchSettled == call.op = "search" /\ call.pc = "settled"

IsListOfObjects(v) ==
    TypeOf(v) = "array" /\ \A k \in DOMAIN v[2] : TypeOf(v[2][k]) = "object"

\* the body of a search reply is unusable: it is not JSON, or no list of
\* entries can be read from it. FRED: the reply is null, or its `seriess`
\* is there and is not a list of objects (a reply without `seriess` reads
\* as a reply of no entries). World Bank: the reply is not a
\* [page, entries] pair whose entries are a list of objects.
UnusableSearchReply ==
    \/ call.body = Unparsed
    \/ /\ call.adapter.id = "fred"
       /\ \/ Nullish(call.body)
          \/ HasKey(call.body, "seriess") /\ ~IsListOfObjects(Get(call.body, "seriess"))
    \/ /\ call.adapter.id = "worldbank"
       /\ \/ TypeOf(call.body) # "array"
          \/ ~IsListOfObjects(At(call.body[2], 1))

\* the remote search failed: no response, a non-success status, or an
\* unusable body
RemoteSearchFailed ==
    \/ call.network = "failed"
    \/ call.network = "answered" /\ ~Ok(call.status)
    \/ call.network = "answered" /\ Ok(call.status) /\ UnusableSearchReply

LocalTable(sourceId) ==
    IF sourceId = "fred" THEN POPULAR_SERIES ELSE POPULAR_INDICATORS

ContainsIgnoringCase(text, part) == includes(toLowerCase(text), toLowerCase(part))

\* `found` lists exactly the entries of the table whose id, name or
\* description contains the query
IsLocalAnswer(found, table, query) ==
    LET hits == {k \in DOMAIN table :
                    \/ ContainsIgnoringCase(table[k].id, query)
                    \/ ContainsIgnoringCase(table[k].name, query)
                    \/ ContainsIgnoringCase(table[k].description, query)}
    IN  /\ Len(found) = Cardinality(hits)
        /\ \A k \in hits : \E j \in DOMAIN found :
                /\ found[j].id = Text(table[k].id)
                /\ found[j].name = Text(table[k].name)
                /\ found[j].description = Text(table[k].description)

Validated == DOMAIN outcomes

FreshnessWarned(outcome) ==
    \E k \in DOMAIN outcome.warnings : outcome.warnings[k][1] = "Data is"
EmptyWarned(outcome) ==
    \E k \in DOMAIN outcome.warnings : outcome.warnings[k] = EmptyWarning

\* the candidate was fetched at tick 0: its age in ticks at a clock reading
Days(n) == n * TicksPerDay

\* C12: a candidate that fails the structural pass is reported invalid with
\* a non-empty error list and no warnings, also when it is stale or has no
\* rows.
StructuralFailureShortCircuits ==
    \A k \in Validated :
        candidate \in InvalidCandidates =>
            /\ outcomes[k].outcome.valid = FALSE
            /\ outcomes[k].outcome.errors # <<>>
            /\ outcomes[k].outcome.warnings = <<>>

\* a candidate without a source, with zero rows and fetched 31 days before,
\* was validated
StaleEmptyInvalidValidated ==
    /\ candidate = Obj([Base EXCEPT !.source = JsUndefined])
    /\ \E k \in Validated :
        /\ outcomes[k].at = Days(MaxAgeDays + 1)
        /\ outcomes[k].outcome.errors = <<Issue(<<"source">>, "string", JsUndefined)>>

\* C13: a structurally valid result gets the freshness warning exactly when
\* it is validated more than 30 days after it was fetched: always at 31
\* days, never at 29 or at exactly 30.
FreshnessBoundary ==
    \A k \in Validated :
        candidate \in ValidCandidates =>
            /\ FreshnessWarned(outcomes[k].outcome) <=> outcomes[k].at > Days(30)
            /\ outcomes[k].at = Days(31) => FreshnessWarned(outcomes[k].outcome)
            /\ outcomes[k].at \in {Days(29), Days(30)} => ~FreshnessWarned(outcomes[k].outcome)

\* one result was validated exactly 30 days after its fetch, without the
\* warning, and again a tick later, with it
ValidatedAcrossBoundary ==
    /\ candidate \in ValidCandidates
    /\ Len(outcomes) = 2
    /\ outcomes[1].at = Days(30) /\ ~FreshnessWarned(outcomes[1].outcome)
    /\ outcomes[2].at = Days(30) + 1
    /\ outcomes[2].outcome.warnings[1] = FreshnessWarning(30)

(***************************************************************************)
(* Properties of the adapters' fetch.                                      *)
(***************************************************************************)
FetchSettled == call.op = "fetch" /\ call.pc = "settled"
FetchReturned == FetchSettled /\ call.promise.state = "fulfilled"
\* the rows and the metadata of the DataResult a fetch returned
RowsReturned == call.promise.value[2].data[2]
MetadataReturned == call.promise.value[2].metadata[2]

\* C14: a result a fetch returned with zero rows validates as valid, with no
\* structural errors and with the empty-result warning, and the empty-result
\* warning is there exactly when the result has zero rows.
ZeroRowsValidate ==
    (FetchReturned /\ call.validated) =>
        /\ RowsReturned = <<>> =>
              /\ validation.valid
              /\ validation.errors = <<>>
              /\ EmptyWarned(validation)
        /\ EmptyWarned(validation) <=> RowsReturned = <<>>

\* a cell counts as missing when it is null, absent or the empty string
IsMissing(cell) == cell \in {JsNull, JsUndefined, Str("")}

MissingCells(rows) ==
    Cardinality({rc \in (DOMAIN rows) \X (DOMAIN Columns) :
                    IsMissing(Get(rows[rc[1]], Columns[rc[2]]))})

\* a warning that is neither the freshness nor the empty-result warning
MissingRateWarned(outcome) ==
    \E k \in DOMAIN outcome.warnings :
        outcome.warnings[k][1] \notin {"Data is", EmptyWarning[1]}

\* C15: a structurally valid result gets a missing-value-rate warning
\* exactly when more than 10% of the cells of its rows, over the declared
\* columns, are null or empty.
MissingRateWarning ==
    \A k \in Validated :
        candidate \in ValidCandidates =>
            LET rows == candidate[2].data[2] IN
            MissingRateWarned(outcomes[k].outcome)
                <=> 10 * MissingCells(rows) > Len(rows) * Len(Columns)

\* C16, as claimed: two calls on the same input, at any two points in time,
\* return identical outcomes.
ValidateIsIdempotent ==
    \A i, j \in Validated : outcomes[i].outcome = outcomes[j].outcome

IsNotFreshness(warning) == warning[1] # "Data is"

\* C16, amended: two calls on the same input return the same valid flag, the
\* same errors, the same data and the same warnings apart from the freshness
\* warning, whatever the time between them; two calls at the same clock
\* reading return identical outcomes.
ValidateIsIdempotentButForFreshness ==
    \A i, j \in Validated :
        LET first == outcomes[i].outcome
            second == outcomes[j].outcome
        IN  /\ first.valid = second.valid
            /\ first.errors = second.errors
            /\ first.data = second.data
            /\ SelectSeq(first.warnings, IsNotFreshness)
                   = SelectSeq(second.warnings, IsNotFreshness)
            /\ outcomes[i].at = outcomes[j].at => first = second

\* one valid result was validated 29 days and 31 days after its fetch, and
\* only the second call warned
OutcomesDifferOverTime ==
    /\ candidate \in ValidCandidates
    /\ Len(outcomes) = 2
    /\ outcomes[1].at = Days(29) /\ outcomes[2].at = Days(31)
    /\ outcomes[1].outcome.valid /\ outcomes[2].outcome.valid
    /\ ~FreshnessWarned(outcomes[1].outcome)
    /\ FreshnessWarned(outcomes[2].outcome)

\* C17: validateDataResult leaves its input as it was, whether the input
\* passes the structural pass or not.
InputNeverMutated ==
    [][outcomes' # outcomes => candidate' = candidate]_vars

\* a valid input with a member the schema does not declare was validated:
\* the data returned is a stripped copy and the input still has the member
InputKeptBesideStrippedCopy ==
    /\ candidate \in ValidCandidates
    /\ candidate[2].extra = Str("x")
    /\ Len(outcomes) >= 1
    /\ outcomes[1].outcome.valid
    /\ outcomes[1].outcome.data[2].extra = JsUndefined

\* a cell of a payload that looks like a number
NumericLooking(cell) == TypeOf(cell) = "string" /\ cell[2] \in {"4903185", "01", "15"}

\* C18: in the rows CensusDataSource.fetch returns, a numeric-looking cell of
\* the payload is a number and every other cell is the payload's value: a
\* non-numeric string stays that string, null stays null and the empty
\* string stays empty.
CensusCellsCoerced ==
    (FetchReturned /\ call.adapter.id = "census" /\ RowsReturned # <<>>) =>
        \A r \in DOMAIN RowsReturned : \A c \in DOMAIN CensusHeader[2] :
            LET raw == At(call.body[2][r + 1][2], c - 1)
                cell == Get(RowsReturned[r], CensusHeader[2][c][2])
            IN  IF NumericLooking(raw) THEN TypeOf(cell) = "number" ELSE cell = raw

\* the reply to a fetch has the shape its source documents. Census: a
\* non-empty array of arrays, the header row first. FRED: an object whose
\* `observations` is a list of objects with a date and a value. World Bank:
\* a [page, data] pair whose data is null or a list of objects with a country
\* and an indicator.
WellFormedReply(sourceId, body) ==
    CASE sourceId = "census" ->
            /\ TypeOf(body) = "array" /\ body[2] # <<>>
            /\ \A k \in DOMAIN body[2] : TypeOf(body[2][k]) = "array"
      [] sourceId = "fred" ->
            /\ HasKey(body, "observations")
            /\ IsListOfObjects(Get(body, "observations"))
            /\ \A k \in DOMAIN Get(body, "observations")[2] :
                  /\ HasKey(Get(body, "observations")[2][k], "date")
                  /\ HasKey(Get(body, "observations")[2][k], "value")
      [] sourceId = "worldbank" ->
            /\ TypeOf(body) = "array" /\ Len(body[2]) = 2
            /\ \/ body[2][2] = JsNull
               \/ /\ IsListOfObjects(body[2][2])
                  /\ \A k \in DOMAIN body[2][2][2] :
                        /\ HasKey(body[2][2][2][k], "country")
                        /\ HasKey(body[2][2][2][k], "indicator")

\* C19: a fetch fails, and returns no result, whenever the response has a
\* non-success status and whenever its body is malformed (not parseable, or
\* not of the source's shape).
FetchFailsOnBadReply ==
    (/\ FetchSettled
     /\ call.network = "answered"
     /\ \/ ~Ok(call.status)
        \/ call.body = Unparsed
        \/ ~WellFormedReply(call.adapter.id, call.body))
    => /\ call.promise.state = "rejected"
       /\ call.promise.value = NoResult

\* C20: the sourceUrl of a result a fetch returned never contains the
\* adapter's API key, and is the request URL unchanged when the Census
\* adapter has no key.
SourceUrlRedacted ==
    FetchReturned =>
        LET sourceUrl == MetadataReturned.sourceUrl[2]
            apiKey == call.adapter.apiKey
        IN  /\ Truthy(apiKey) => \A k \in DOMAIN sourceUrl : sourceUrl[k] # apiKey
            /\ (call.adapter.id = "census" /\ ~Truthy(apiKey)) => sourceUrl = call.url

(***************************************************************************)
(* Properties of the dispatcher: cost, prompt, callbacks, termination.     *)
(***************************************************************************)
\* DEFAULT_PROVIDERS.find(p => p.id === providerId)
ProviderSpec(providerId) ==
    LET k == CHOOSE k \in DOMAIN DEFAULT_PROVIDERS : DEFAULT_PROVIDERS[k].id = providerId
    IN DEFAULT_PROVIDERS[k]

\* the calls that completed with a parsed completion
CompletedCalls == {c \in Slots \X (1..MaxProviders) :
                      /\ c[2] \in DOMAIN dispatch[c[1]].branches
                      /\ dispatch[c[1]].branches[c[2]].cause = "completed"}

\* C21: the outcome of a successful call carries cost = (tokensUsed / 1000) *
\* costPer1kTokens of the provider's entry in DEFAULT_PROVIDERS, its tokensUsed
\* is the usage the backend reported, and a completion without usage has
\* tokensUsed 0 and cost 0.
CostIsTokensTimesRate ==
    \A c \in CompletedCalls :
        LET b == dispatch[c[1]].branches[c[2]]
            outcome == b.value
            \* millionths of a dollar per token: both rates are whole numbers of them
            perToken == ProviderSpec(providers[c[2]]).costPer1kTokens \div 1000
        IN /\ outcome.cost = outcome.tokensUsed * perToken
           /\ b.detail.tokens # NoTokens => outcome.tokensUsed = b.detail.tokens[1]
           /\ b.detail.tokens = NoTokens => outcome.tokensUsed = 0 /\ outcome.cost = 0

\* a dispatch has returned a priced completion of anthropic, whose rate is
\* not the default one, beside a completion that reported no usage
PricedAndUnpricedReturned ==
    \E d \in Slots : \E i, j \in DOMAIN dispatch[d].branches :
        /\ Returned(d)
        /\ <<d, i>> \in CompletedCalls /\ <<d, j>> \in CompletedCalls
        /\ providers[i] = "anthropic"
        /\ dispatch[d].responses[i].tokensUsed = 1000
        /\ dispatch[d].responses[i].cost = 15000
        /\ dispatch[d].branches[j].detail.tokens = NoTokens
        /\ dispatch[d].responses[j].cost = 0

\* the dispatches sendMessage was called for
Called(d) == dispatch[d].pc # "idle"

\* C22: only a malformed call raises. sendMessage called with an empty provider
\* list rejects and returns no result, and sendMessage called with providers
\* never rejects, whatever happens to their calls.
EmptyProviderListRaises ==
    \A d \in Slots : Called(d) =>
        /\ providers = <<>> => dispatch[d].promise = "rejected"
        /\ providers # <<>> => dispatch[d].promise # "rejected"

\* the calls of dispatch d that were sent to their provider
SentCalls(d) == {i \in DOMAIN dispatch[d].branches : dispatch[d].branches[i].fetchCalls > 0}

\* C23: within one dispatch every provider that is called gets the same prompt:
\* the content of the message in the request body of each call is the message
\* sendMessage was called with, so any two calls of the batch carry the same.
SamePromptForAll ==
    \A d \in Slots : \A i, j \in SentCalls(d) :
        /\ dispatch[d].branches[i].request.content = dispatch[d].message
        /\ dispatch[d].branches[i].request.content = dispatch[d].branches[j].request.content

\* a dispatch has sent its prompt to two providers, in bodies of two shapes
PromptSentToTwo ==
    \E d \in Slots : \E i, j \in SentCalls(d) :
        /\ dispatch[d].message # <<>>
        /\ dispatch[d].branches[i].request.model # dispatch[d].branches[j].request.model

\* C24: no dispatch blocks for ever. A sendMessage in flight returns in the
\* end, also when an endpoint it called never answers.
EveryDispatchCompletes ==
    \A d \in Slots : Running(d) ~> Returned(d)

\* C25: with dispatches that overlap, the hook state follows the work in
\* flight: isLoading is true while a dispatch has calls in flight, the hook
\* keeps the controller of a dispatch that goes on running, and cancelRequest
\* leaves no dispatch in flight.
HookTracksOverlappingDispatches ==
    [][/\ (\E d \in Slots : dispatch'[d].pc = "running") => isLoading'
       /\ \A d \in Slots :
             (abortController = d /\ dispatch'[d].pc = "running") => abortController' = d
       /\ CancelRequest => \A d \in Slots : dispatch'[d].pc # "running"]_vars

HasSession(state, sessionId) ==
    \E k \in DOMAIN state.sessions : state.sessions[k].id = sessionId

\* a step in which one of the store actions `ops` was called: the clock stands
\* still and the call is the last one made
StoreStep(ops) == clock' = clock /\ storeCall'.op \in ops

\* the sessions of `state` other than those with the id
Without(state, sessionId) ==
    LET other(s) == s.id # sessionId
    IN SelectSeq(state.sessions, other)

\* C27: after every action of the store currentSessionId is null or the id of
\* a session in sessions; deleting the current session makes the first
\* session left the current one, or none when no session is left; and
\* switchSession with an id no session has changes nothing.
CurrentSessionIsKnown ==
    [][LET current == store.currentSessionId
           remaining == Without(store, current)
       IN /\ \/ store'.currentSessionId = JsNull
             \/ HasSession(store', store'.currentSessionId)
          /\ (current # JsNull /\ DeleteSession(current)) =>
                store'.currentSessionId =
                    (IF remaining = <<>> THEN JsNull ELSE remaining[1].id)
          /\ StoreStep({"switchSession"}) =>
                \A sessionId \in SessionIds :
                   (SwitchSession(sessionId) /\ ~HasSession(store, sessionId)) =>
                      store' = store]_vars

\* the current session was deleted while two others were left, and the first
\* of them, not the last, is the current one now
CurrentMovedToFirstLeft ==
    /\ storeCall.op = "deleteSession"
    /\ storeCall.wasCurrent
    /\ Len(store.sessions) = 2
    /\ store.sessions[1].id # store.sessions[2].id
    /\ store.currentSessionId = store.sessions[1].id

\* C28: the ids of the sessions are pairwise distinct after every action of
\* the store, two createSession calls in one clock tick included, and
\* deleteSession of an id a session has removes one session.
SessionIdsDistinct ==
    [][LET sessions == store'.sessions
       IN /\ \A j, k \in DOMAIN sessions : j # k => sessions[j].id # sessions[k].id
          /\ \A sessionId \in SessionIds :
                (DeleteSession(sessionId) /\ HasSession(store, sessionId)) =>
                   Len(sessions) = Len(store.sessions) - 1]_vars

\* the stored messages of the current session of `state`, none without one
CurrentStoredMessages(state) ==
    IF state.currentSessionId = JsNull THEN <<>>
    ELSE StoredMessages(state.sessions, state.currentSessionId)

\* C29: addMessage, updateMessage and clearMessages change the top-level
\* messages alone: sessions, with the messages stored in them, and
\* currentSessionId stay as they are. createSession, switchSession to a
\* session of the store and deleteSession replace messages by the stored
\* messages of the session that is current afterwards, so a message added
\* while a session is current is gone after switching away and back.
MessagesAreTopLevelOnly ==
    [][/\ StoreStep({"addMessage", "updateMessage", "clearMessages"}) =>
             /\ store'.sessions = store.sessions
             /\ store'.currentSessionId = store.currentSessionId
       /\ (\/ StoreStep({"createSession", "deleteSession"})
           \/ \E sessionId \in SessionIds :
                 SwitchSession(sessionId) /\ HasSession(store, sessionId)) =>
             /\ store'.messages = CurrentStoredMessages(store')
             /\ \A k \in DOMAIN store'.messages : \A j \in DOMAIN store.messages :
                   store'.messages[k] # store.messages[j]
       /\ (\E sessionId \in SessionIds : SwitchSession(sessionId)) =>
             store'.sessions = store.sessions]_vars

\* a message was added while a session is current, and the messages stored in
\* that session do not hold it
MessageAddedBesideSession ==
    /\ storeCall.op = "addMessage"
    /\ store.currentSessionId # JsNull
    /\ Len(store.sessions) >= 2
    /\ store.messages # <<>>
    /\ CurrentStoredMessages(store) = <<>>

(***************************************************************************)
(* Properties of the health endpoint.                                      *)
(***************************************************************************)
\* C30: the response of GET reports 'unhealthy' exactly when a service check
\* is 'down', 'degraded' exactly when none is down and one is not 'up', and
\* 'healthy' exactly when all are 'up'; its HTTP status is 503 exactly when it
\* reports 'unhealthy' and 200 otherwise, in every environment.
HealthStatusMatchesChecks ==
    health.method = "GET" =>
        LET services == health.response.body.services
            checks == {services[name].status : name \in DOMAIN services}
            overall == health.response.body.status
            httpStatus == health.response.status
        IN /\ Cardinality(DOMAIN services) = 1 + Cardinality(DOMAIN LLMEnv)
           /\ overall \in {"healthy", "degraded", "unhealthy"}
           /\ overall = "unhealthy" <=> "down" \in checks
           /\ overall = "degraded" <=> ("down" \notin checks /\ checks # {"up"})
           /\ overall = "healthy" <=> checks = {"up"}
           /\ httpStatus = 503 <=> overall = "unhealthy"
           /\ httpStatus = 200 <=> overall # "unhealthy"

\* GET answered 200 and 'degraded' in an environment with the database
\* configured, one provider key set to the empty string and one key set
DegradedAnswered ==
    /\ health.method = "GET"
    /\ health.env["OPENAI_API_KEY"] = ""
    /\ Truthy(health.env["GROK_API_KEY"])
    /\ health.response.body.services[<<"neo4j">>].status = "up"
    /\ health.response.body.status = "degraded"
    /\ health.response.status = 200

====
